---------------------------- MODULE Spec2Model ----------------------------
(***************************************************************************)
(* Verification model of the audioviz repository.                          *)
(*                                                                         *)
(*   SpecAudio : AudioService (src/src/services/AudioService.ts), the      *)
(*               signal source adapter: sources, transport, accessors.     *)
(*   SpecLoop  : the render loop of one renderer component               *)
(*               (VisualizationCanvas, BarVisualizer, WaveformVisualizer,  *)
(*               ParticleVisualizer) under React's effect life cycle.      *)
(*   SpecWaveform : the y-coordinates of the waveform renderers.           *)
(*   SpecBands : the frequency banding of the bar renderers.               *)
(*   SpecBeat  : AudioService.detectBeat.                                  *)
(*   SpecMapping : the mapping routines of the renderers (normalization,   *)
(*               colour index, bar height, short buffers).                 *)
(*   SpecVolume : AudioService.setVolume / getVolume.                      *)
(*   SpecSettings : VisualizationProvider (settings and presets).          *)
(*   SpecProvider : AudioProvider's source methods on top of the service.  *)
(*   SpecAnalyser : analyser reconfiguration (setAnalyzerSensitivity).     *)
(*   SpecAsteroids : the particles of the canvas's asteroid renderers.     *)
(*   SpecPulse : the beat pulse of ParticleVisualizer/GeometricVisualizer. *)
(*   SpecSlider : the sensitivity slider's decibel window.                 *)
(*   SpecRender : the settings a running animation loop draws with.        *)
(*   SpecPlaying : the provider's playing flag against the service's.      *)
(*   SpecStarts : starts of the player by overlapping play() calls.        *)
(*   SpecControls : the microphone error shown by AudioControls.           *)
(*   SpecWindow : the analyser's window against settings.sensitivity.      *)
(***************************************************************************)
EXTENDS Integers, Sequences, FiniteSets, Bags, TLC

(***************************************************************************)
(* Bounds of the model.                                                    *)
(***************************************************************************)
MaxNodes == 3        \* Tone.Player / Tone.UserMedia objects ever created
MaxCalls == 2        \* async service calls that may be in flight at once
MaxFrames == 4       \* requestAnimationFrame calls in one behaviour
ModelParticles == 1  \* particles followed (the component creates 2000)
MaxRadius == 120     \* largest particle distance followed

VARIABLES
  \* ---- AudioService fields (AudioService.ts:18-26) ----
  currentSource,     \* this.currentSource: [type, source]; type "none" for null
  player,            \* this.player: index into nodes, 0 for null
  microphone,        \* this.microphone: index into nodes, 0 for null
  analyser,          \* this.analyser: "none" (null) or "ready"
  analyserType,      \* this.analyser.type: "fft" or "waveform"
  isPlaying,         \* this.isPlaying
  \* ---- platform objects the service creates ----
  nodes,             \* every Tone.Player / Tone.UserMedia created so far
  probeStreams,      \* MediaStreams returned by the getUserMedia probe, still live
  \* ---- control state ----
  calls,             \* bag of the async service calls in flight, each at its await
  lastDone,          \* how the service call that completed last ended
  lastRead,          \* outcome of the last getFrequencyData / getWaveformData
  \* ---- one mounted renderer component and what React hands to it ----
  component,         \* which component: "canvas", "bars", "waveform", "particles"
  mounted,           \* the component is mounted and its effects have run
  propIsPlaying,     \* isPlaying of the AudioProvider, as rendered
  audioData,         \* audioData of the AudioProvider: "null" or "data"
  settingsType,      \* settings.type
  resolution,        \* settings.resolution, the width/height props
  surface,           \* size of the canvas / WebGL renderer
  pending,           \* frame requests not yet fired: [id, playing]
  animationRef,      \* animationRef.current / animationFrameRef.current
  nextHandle,        \* id the next requestAnimationFrame returns
  last,              \* the event that happened last
  lastTick,          \* how the frame callback that ran last ended
  ranUnmounted,      \* a frame callback has run after the unmount
  positions,         \* distance from the centre of each particle
  \* ---- drawings followed on their own ----
  trace,             \* the y-coordinates a waveform draw stroked for one sample
  bandMap,           \* the frequency bands a bar draw mapped
  \* ---- feature and mapping routines followed on their own ----
  calc               \* per routine, its last inputs and what it returned

audioVars == <<currentSource, player, microphone, analyser, analyserType,
               isPlaying, nodes, probeStreams, calls, lastDone, lastRead>>

loopVars == <<component, mounted, propIsPlaying, audioData, settingsType,
              resolution, surface, pending, animationRef, nextHandle, last,
              lastTick, ranUnmounted, positions>>

drawVars == <<trace, bandMap>>

viewVars == <<loopVars, drawVars, calc>>

vars == <<audioVars, viewVars>>

NoSource == [type |-> "none", source |-> 0]

NoRead == [fn |-> "none", result |-> "none", threw |-> FALSE]

(***************************************************************************)
(* Helpers over the created nodes.                                         *)
(***************************************************************************)
NodeIds == 1..Len(nodes)

\* new Tone.Player(...) / new Tone.UserMedia(): a fresh, unconnected node
NewNode(kind) == [kind |-> kind, connected |-> FALSE, active |-> FALSE]

\* node.connect(...) / node.toDestination()
Connect(ns, n) == [ns EXCEPT ![n].connected = TRUE]

\* player.stop(); player.disconnect()   or   microphone.close(); microphone.disconnect()
StopAndDisconnect(ns, n) == [ns EXCEPT ![n].connected = FALSE, ![n].active = FALSE]

\* nodes wired to the analyser / destination
ConnectedNodes == {n \in NodeIds : nodes[n].connected}

\* Tone.UserMedia objects whose MediaStream is open
OpenMicrophones == {n \in NodeIds : nodes[n].kind = "mic" /\ nodes[n].active}

\* a source is active: the current source's node feeds the analyser
SourceActive ==
  /\ currentSource.type # "none"
  /\ currentSource.source # 0
  /\ nodes[currentSource.source].connected

(***************************************************************************)
(* AudioService.stop (AudioService.ts:303-325), as a function of the       *)
(* nodes: it closes what currentSource.type names, nothing else.           *)
(***************************************************************************)
StopNodes(ns) ==
  IF currentSource.type = "none" THEN ns
  ELSE IF currentSource.type \in {"file", "stream"}
       THEN IF player # 0 THEN StopAndDisconnect(ns, player) ELSE ns
       ELSE IF microphone # 0 THEN StopAndDisconnect(ns, microphone) ELSE ns

StopPlaying == IF currentSource.type = "none" THEN isPlaying ELSE FALSE

(***************************************************************************)
(* constructor (AudioService.ts:28-36): volume node to the destination,    *)
(* analyser created; no source, no player, no microphone.                  *)
(***************************************************************************)
\* settings.resolution offered by the settings panel
\* (VisualizationSettings.tsx:185-201); the first is the default
Resolutions ==
  {[width |-> 1280, height |-> 720], [width |-> 1920, height |-> 1080]}

DefaultResolution == [width |-> 1280, height |-> 720]

NoSurface == [width |-> 0, height |-> 0]

\* nothing drawn yet
NoTrace == [renderer |-> "none", height |-> 0, sensitivity |-> 0,
            sample |-> 0, ys |-> <<>>]

NoBands == [renderer |-> "none", requested |-> 0, count |-> 0,
            length |-> 0, freqBins |-> <<>>]

\* no routine called yet
NoCalc ==
  [beat |-> [called |-> FALSE, frame |-> <<>>, threshold |-> 0,
             readable |-> FALSE, result |-> FALSE],
   norm |-> [renderer |-> "none", db |-> 0, value |-> 0],
   \* currentVolume = 1.0 and a new Tone.Volume() at 0 dB
   volume |-> [called |-> FALSE, requested |-> 10000, current |-> 10000,
               gain |-> 0, prevCurrent |-> 10000, prevGain |-> 0],
   \* useState(defaultSettings), useState([]): heap[1] is defaultSettings
   settings |-> [heap |-> <<[type |-> "bars2d", sensitivity |-> 100,
                             numFrequencyBands |-> 8]>>,
                 current |-> 1, presets |-> <<>>,
                 op |-> [name |-> "none", updates |-> {}, preset |-> 0,
                         from |-> 1]],
   \* AudioProvider: useState(null), useState(false), useState(null)
   provider |-> [currentSource |-> "null", isPlaying |-> FALSE,
                 error |-> "null", pending |-> "none", settled |-> "none",
                 mode |-> "none", thrown |-> "none",
                 prevMode |-> "none", prevError |-> "null"],
   \* the analyser objects: analyser 1 is the constructor's; 0 is null
   graph |-> [analyser |-> 1, created |-> 1, disposed |-> {},
              source |-> "none", sourceAnalyser |-> 0, connectedTo |-> {},
              audioData |-> 0, op |-> "none", replaced |-> 0,
              read |-> [by |-> "none", analyser |-> 0]],
   color |-> [renderer |-> "none", colors |-> 0, index |-> 0],
   bar |-> [renderer |-> "none", canvasHeight |-> 0, unit |-> 1,
            barHeight |-> 0],
   short |-> [routine |-> "none", length |-> 0, threw |-> FALSE,
              missing |-> FALSE, nan |-> FALSE],
   \* window._asteroidParticles / window._asteroid3DParticles not yet
   \* created: length 0; `p` is the particle followed in each array
   asteroids |-> [width |-> 6, height |-> 4, op |-> "none",
                  length2D |-> 0, p2D |-> [x |-> 0, y |-> 0, size |-> 2],
                  length3D |-> 0,
                  p3D |-> [x |-> 0, y |-> 0, z |-> 0, size |-> 2]],
   \* the 3D renderers before mount: no particle, no mesh
   pulse |-> [mounted |-> FALSE, initial |-> 0, radius |-> 0,
              meshScale |-> 100, frames |-> 0,
              frame |-> [renderer |-> "none", db |-> 0, isBeat |-> FALSE]],
   \* the last setAnalyzerSensitivity(minDb, maxDb) made by the slider
   slider |-> [made |-> FALSE, sensitivity |-> 0, minDb |-> 0, maxDb |-> 0],
   \* a renderer's animation loop: the provider's settings, the settings
   \* object held by the closure of the running loop, and the last frame
   render |-> [component |-> "none", isPlaying |-> FALSE, running |-> FALSE,
               settings |-> [type |-> "bars", sensitivity |-> 100],
               captured |-> [type |-> "bars", sensitivity |-> 100],
               frame |-> [made |-> FALSE,
                          settings |-> [type |-> "bars", sensitivity |-> 100]]],
   \* player.start() calls made since the player was last stopped or made
   starts |-> 0,
   \* AudioControls: the source tab shown, and the values of activeTab and
   \* error with which its error-clearing effect last ran
   controls |-> [activeTab |-> "file", seenTab |-> "file",
                 seenError |-> "null"],
   \* settings.sensitivity (defaultSettings: 1.0), the analyser's
   \* minDecibels and maxDecibels in tenths of a decibel as the constructor
   \* leaves them, and the sensitivities of the saved presets
   window |-> [sensitivity |-> 1, minDb |-> -1000, maxDb |-> -300,
               presets |-> {}]]

\* the providers as constructed and no renderer component mounted yet
ViewUnmounted(k) ==
  /\ component = k
  /\ mounted = FALSE
  /\ propIsPlaying = FALSE
  /\ audioData = "null"
  /\ settingsType = "bars_2d"
  /\ resolution = DefaultResolution
  /\ surface = NoSurface
  /\ pending = {}
  /\ animationRef = 0
  /\ nextHandle = 1
  /\ last = "none"
  /\ lastTick = "none"
  /\ ranUnmounted = FALSE
  /\ positions = <<>>
  /\ trace = NoTrace
  /\ bandMap = NoBands
  /\ calc = NoCalc

AudioConstructed ==
  /\ currentSource = NoSource
  /\ player = 0
  /\ microphone = 0
  /\ analyser = "ready"
  /\ analyserType = "fft"
  /\ isPlaying = FALSE
  /\ nodes = <<>>
  /\ probeStreams = 0
  /\ calls = EmptyBag
  /\ lastDone = "none"
  /\ lastRead = NoRead

InitAudio == AudioConstructed /\ ViewUnmounted("canvas")

\* a call suspended at an await: the method, the await, and the UserMedia
\* object the call itself created (0 before that)
Call(op, pc, node) == [op |-> op, pc |-> pc, node |-> node]

InFlight == BagToSet(calls)

Suspend(call) == calls (+) SetToBag({call})

Move(call, next) == (calls (-) SetToBag({call})) (+) SetToBag({next})

\* the call returns or throws: `how` is "started", "failed" or the method
Finish(call, how) ==
  /\ calls' = calls (-) SetToBag({call})
  /\ lastDone' = how

\* Every source method starts with `await this.stop()`: stop() runs
\* synchronously inside the call, the rest of the method is a continuation.
StartCall(op) ==
  /\ BagCardinality(calls) < MaxCalls
  /\ nodes' = StopNodes(nodes)
  /\ isPlaying' = StopPlaying
  /\ calls' = Suspend(Call(op, "afterStop", 0))
  /\ UNCHANGED <<currentSource, player, microphone, analyser, analyserType,
                 probeStreams, lastDone, lastRead>>

\* a source method called on the service directly
BeginCall(op) ==
  /\ UNCHANGED viewVars
  /\ StartCall(op)

\* loadAudioFile (AudioService.ts:152-180), up to the first await
LoadAudioFileCall == BeginCall("loadAudioFile")

\* loadAudioFile after the await: new player, toDestination, connect to the
\* analyser, currentSource
LoadAudioFileResume ==
  /\ UNCHANGED viewVars
  /\ Call("loadAudioFile", "afterStop", 0) \in InFlight
  /\ Len(nodes) < MaxNodes
  /\ LET n == Len(nodes) + 1
     IN /\ nodes' = Connect(Append(nodes, NewNode("player")), n)
        /\ player' = n
        /\ currentSource' = [type |-> "file", source |-> n]
        /\ Finish(Call("loadAudioFile", "afterStop", 0), "started")
  /\ UNCHANGED <<microphone, analyser, analyserType, isPlaying, probeStreams, lastRead>>

\* loadStreamUrl (AudioService.ts:231-263), up to the first await
LoadStreamUrlCall == BeginCall("loadStreamUrl")

\* loadStreamUrl after the await: new player connected to the volume node
\* (which goes to the destination), volume node connected to the analyser,
\* currentSource
LoadStreamUrlResume ==
  /\ UNCHANGED viewVars
  /\ Call("loadStreamUrl", "afterStop", 0) \in InFlight
  /\ Len(nodes) < MaxNodes
  /\ LET n == Len(nodes) + 1
     IN /\ nodes' = Connect(Append(nodes, NewNode("player")), n)
        /\ player' = n
        /\ currentSource' = [type |-> "stream", source |-> n]
        /\ Finish(Call("loadStreamUrl", "afterStop", 0), "started")
  /\ UNCHANGED <<microphone, analyser, analyserType, isPlaying, probeStreams, lastRead>>

\* initMicrophone (AudioService.ts:182-229), up to the first await
InitMicrophoneCall == BeginCall("initMicrophone")

\* initMicrophone after stop(): the getUserMedia support check, then the
\* permission probe is requested
InitMicrophoneAfterStop ==
  /\ UNCHANGED viewVars
  /\ Call("initMicrophone", "afterStop", 0) \in InFlight
  /\ \E supported \in BOOLEAN :
       IF supported
       THEN /\ calls' = Move(Call("initMicrophone", "afterStop", 0),
                             Call("initMicrophone", "probe", 0))
            /\ UNCHANGED lastDone
       ELSE Finish(Call("initMicrophone", "afterStop", 0), "failed")
  /\ UNCHANGED <<currentSource, player, microphone, analyser, analyserType,
                 isPlaying, nodes, probeStreams, lastRead>>

\* the probe getUserMedia({audio:true}) settles; on success its MediaStream
\* is dropped without stopping its tracks, a Tone.UserMedia is created,
\* stored in this.microphone, and its open() is requested
InitMicrophoneProbe ==
  /\ UNCHANGED viewVars
  /\ Call("initMicrophone", "probe", 0) \in InFlight
  /\ \E granted \in BOOLEAN :
       IF granted
       THEN /\ Len(nodes) < MaxNodes
            /\ probeStreams' = probeStreams + 1
            /\ nodes' = Append(nodes, NewNode("mic"))
            /\ microphone' = Len(nodes) + 1
            /\ calls' = Move(Call("initMicrophone", "probe", 0),
                             Call("initMicrophone", "open", Len(nodes) + 1))
            /\ UNCHANGED lastDone
       ELSE /\ Finish(Call("initMicrophone", "probe", 0), "failed")
            /\ UNCHANGED <<probeStreams, nodes, microphone>>
  /\ UNCHANGED <<currentSource, player, analyser, analyserType, isPlaying, lastRead>>

\* open() of the UserMedia this call created settles; on success
\* this.microphone (read again from the field) is connected to the analyser
\* and the destination, then currentSource and isPlaying are set
InitMicrophoneOpen ==
  \E call \in InFlight :
    /\ UNCHANGED viewVars
    /\ call.op = "initMicrophone" /\ call.pc = "open"
    /\ \E opened \in BOOLEAN :
         IF opened
         THEN /\ nodes' = Connect([nodes EXCEPT ![call.node].active = TRUE], microphone)
              /\ currentSource' = [type |-> "microphone", source |-> microphone]
              /\ isPlaying' = TRUE
              /\ Finish(call, "started")
         ELSE /\ Finish(call, "failed")
              /\ UNCHANGED <<nodes, currentSource, isPlaying>>
    /\ UNCHANGED <<player, microphone, analyser, analyserType, probeStreams, lastRead>>

\* stop() (AudioService.ts:303-325): synchronous body
ServiceStop ==
  /\ nodes' = StopNodes(nodes)
  /\ isPlaying' = StopPlaying
  /\ lastDone' = "stop"
  /\ UNCHANGED <<currentSource, player, microphone, analyser, analyserType,
                 probeStreams, calls, lastRead>>

\* stop() called on the service directly
Stop ==
  /\ UNCHANGED viewVars
  /\ ServiceStop

\* play() (AudioService.ts:265-283), up to `await Tone.start()`; returns at
\* once without a source or when already playing
ServicePlay ==
  /\ BagCardinality(calls) < MaxCalls
  /\ IF currentSource.type = "none" \/ isPlaying
     THEN /\ lastDone' = "play"
          /\ UNCHANGED calls
     ELSE /\ calls' = Suspend(Call("play", "toneStart", 0))
          /\ UNCHANGED lastDone
  /\ UNCHANGED <<currentSource, player, microphone, analyser, analyserType,
                 isPlaying, nodes, probeStreams, lastRead>>

\* play() called on the service directly
PlayCall ==
  /\ UNCHANGED viewVars
  /\ ServicePlay

\* play() after Tone.start(): player.start() for file/stream, isPlaying
ServicePlayResume ==
  /\ Call("play", "toneStart", 0) \in InFlight
  /\ nodes' = IF currentSource.type \in {"file", "stream"} /\ player # 0
              THEN [nodes EXCEPT ![player].active = TRUE]
              ELSE nodes
  /\ isPlaying' = TRUE
  /\ Finish(Call("play", "toneStart", 0), "play")
  /\ UNCHANGED <<currentSource, player, microphone, analyser, analyserType,
                 probeStreams, lastRead>>

\* the continuation of a play() called on the service directly
PlayResume ==
  /\ UNCHANGED viewVars
  /\ ServicePlayResume

\* pause() (AudioService.ts:285-301): synchronous body
ServicePause ==
  /\ IF currentSource.type = "none" \/ ~isPlaying
     THEN UNCHANGED <<nodes, isPlaying>>
     ELSE /\ nodes' = IF currentSource.type \in {"file", "stream"} /\ player # 0
                      THEN [nodes EXCEPT ![player].active = FALSE]
                      ELSE nodes
          /\ isPlaying' = FALSE
  /\ lastDone' = "pause"
  /\ UNCHANGED <<currentSource, player, microphone, analyser, analyserType,
                 probeStreams, calls, lastRead>>

\* pause() called on the service directly
Pause ==
  /\ UNCHANGED viewVars
  /\ ServicePause

(***************************************************************************)
(* Pull accessors.  `throws` is whether analyser.getValue() throws inside  *)
(* the accessor's try block.                                               *)
(***************************************************************************)
\* an accessor without its try/catch: the analyser's exception escapes
ReadResultUncaught(an, throws) ==
  IF an = "none" THEN "null"
  ELSE IF throws THEN "raised"
  ELSE "data"

\* what the accessor hands to its caller: null without analyser, null from
\* the catch block, the analyser's buffer otherwise
ReadResult(an, throws) ==
  IF an = "none" THEN "null"
  ELSE IF throws THEN "null"
  ELSE "data"

\* getFrequencyData (AudioService.ts:507-543) as seen by the service:
\* `if (type !== 'fft') set({type:'fft'})` precedes getValue()
FrequencyRead(throws) ==
  /\ lastRead' = [fn |-> "getFrequencyData",
                  result |-> ReadResult(analyser, throws),
                  threw |-> (analyser = "ready" /\ throws)]
  /\ analyserType' = IF analyser = "ready" THEN "fft" ELSE analyserType

\* getWaveformData (AudioService.ts:546-586) as seen by the service:
\* set waveform; getValue(); set fft -- a throw skips the switch back
WaveformRead(throws) ==
  /\ lastRead' = [fn |-> "getWaveformData",
                  result |-> ReadResult(analyser, throws),
                  threw |-> (analyser = "ready" /\ throws)]
  /\ analyserType' = IF analyser = "none" THEN analyserType
                     ELSE IF throws THEN "waveform" ELSE "fft"

GetFrequencyData ==
  /\ UNCHANGED viewVars
  /\ \E throws \in BOOLEAN : FrequencyRead(throws)
  /\ UNCHANGED <<currentSource, player, microphone, analyser, isPlaying,
                 nodes, probeStreams, calls, lastDone>>

GetWaveformData ==
  /\ UNCHANGED viewVars
  /\ \E throws \in BOOLEAN : WaveformRead(throws)
  /\ UNCHANGED <<currentSource, player, microphone, analyser, isPlaying,
                 nodes, probeStreams, calls, lastDone>>

NextAudio ==
  \/ LoadAudioFileCall
  \/ LoadAudioFileResume
  \/ LoadStreamUrlCall
  \/ LoadStreamUrlResume
  \/ InitMicrophoneCall
  \/ InitMicrophoneAfterStop
  \/ InitMicrophoneProbe
  \/ InitMicrophoneOpen
  \/ Stop
  \/ PlayCall
  \/ PlayResume
  \/ Pause
  \/ GetFrequencyData
  \/ GetWaveformData

SpecAudio == InitAudio /\ [][NextAudio]_vars

\* the same service driven by a caller that awaits each call before the next
NextAudioSequential == NextAudio /\ BagCardinality(calls') <= 1

SpecAudioSequential == InitAudio /\ [][NextAudioSequential]_vars

(***************************************************************************)
(* Claims about the signal source adapter.                                 *)
(***************************************************************************)

\* C1: only one source is active at a time -- after any sequence of
\* loadAudioFile, initMicrophone and loadStreamUrl calls, overlapping ones
\* included, at most one player or microphone is connected to the
\* analyser/destination.
OneActiveSource == Cardinality(ConnectedNodes) <= 1

\* handles that are open although they do not belong to the current source
StrayHandles ==
  (ConnectedNodes \cup OpenMicrophones) \ {currentSource.source}

\* C2: hardware/stream handles never leak -- once stop() has completed no
\* microphone stream (the permission probe's included) and no player is
\* open, and once a source has been started nothing but that source's own
\* handles is open.
NoLeakedHandles ==
  calls = EmptyBag =>
    /\ lastDone = "stop" =>
         probeStreams = 0 /\ OpenMicrophones = {} /\ ConnectedNodes = {}
    /\ lastDone = "started" =>
         /\ StrayHandles = {}
         /\ probeStreams <= (IF currentSource.type = "microphone" THEN 1 ELSE 0)

\* C3 as stated: the accessors return null whenever no source is active or
\* the analyser is not ready, and never raise.
NullWithoutSource ==
  lastRead.fn # "none" =>
    /\ lastRead.result # "raised"
    /\ (~SourceActive \/ analyser = "none" \/ lastRead.threw) => lastRead.result = "null"

\* C3 as amended: the accessors return null whenever the analyser is not
\* ready (absent, or its read throws), never raise, and otherwise hand out
\* the analyser's buffer whether or not a source is active.
NullWhenAnalyserNotReady ==
  lastRead.fn # "none" =>
    /\ lastRead.result \in {"null", "data"}
    /\ (analyser = "none" \/ lastRead.threw) => lastRead.result = "null"
    /\ (analyser = "ready" /\ ~lastRead.threw) => lastRead.result = "data"

\* a read whose analyser access threw, with no source active
ReadThrewWithoutSource ==
  /\ lastRead.fn \in {"getFrequencyData", "getWaveformData"}
  /\ lastRead.threw
  /\ ~SourceActive

(***************************************************************************)
(* The render loop.  One renderer component is followed through mount,     *)
(* re-renders, frame callbacks and unmount.  React runs an effect's        *)
(* cleanup before the effect runs again and when the component unmounts.   *)
(***************************************************************************)
Components == {"canvas", "bars", "waveform", "particles"}

\* settings.type values followed
VisualizationTypes == {"bars_2d", "waveform_2d"}

\* requestAnimationFrame(cb): the callback closes over the isPlaying of the
\* render that created it
RequestAnimationFrame(pend, h, playing) ==
  pend \cup {[id |-> h, playing |-> playing]}

\* a cancelAnimationFrame that cancels nothing
CancelNothing(pend, h) == pend

\* cancelAnimationFrame(h)
CancelAnimationFrame(pend, h) == {f \in pend : f.id # h}

\* a requestAnimationFrame whose handle is not kept
KeepHandle(ref, h) == ref

\* `animationRef.current = requestAnimationFrame(draw)`
StoreHandle(ref, h) == h

\* a frame is requested and its handle stored in the ref
Schedule(pend, ref, playing) ==
  /\ nextHandle <= MaxFrames
  /\ pending' = RequestAnimationFrame(pend, nextHandle, playing)
  /\ animationRef' = StoreHandle(ref, nextHandle)
  /\ nextHandle' = nextHandle + 1

\* the callback returns without requesting a frame
NoSchedule(pend) ==
  /\ pending' = pend
  /\ UNCHANGED <<animationRef, nextHandle>>

\* the cleanup every loop effect returns: cancel the handle in the ref
Cleanup(pend, ref) == CancelAnimationFrame(pend, ref)

(***************************************************************************)
(* ParticleVisualizer (unnamed/part_000:104-178).  Levels are dB values of *)
(* a flat spectrum; distances are integers, scales are in percent.         *)
(***************************************************************************)
FrameLevels == {-100, -50, 0}

\* radius = Math.random() * 30
InitRadii == {10, 29}

Abs(x) == IF x < 0 THEN -x ELSE x

\* settings.sensitivity of the default settings, in percent
DefaultSensitivityPct == 100

\* ((frequencyData[i] || -80) + 100) / 100, in percent
AudioValuePct(db) == (IF db = 0 THEN -80 ELSE db) + 100

\* detectBeat(0.15) (AudioService.ts:589-598): its own read of the
\* spectrum, then mean |level| of the first ten bins against the threshold
DetectBeat(db, readable) == readable /\ Abs(db) * 100 > 15

\* scale = 1.0 + audioValue * sensitivity * beatScale, in percent
ScalePct(db, isBeat) ==
  100 + (AudioValuePct(db) * DefaultSensitivityPct
           * (IF isBeat THEN 12 ELSE 10)) \div 1000

\* positions[i] = n * distance * scale
ScalePositions(pos, db, isBeat) ==
  [i \in DOMAIN pos |-> (pos[i] * ScalePct(db, isBeat)) \div 100]

\* animate(): every branch requests the next frame
Animate(pos, pend, ref, playing) ==
  /\ Schedule(pend, ref, playing)
  /\ IF ~playing
     THEN /\ positions' = pos
          /\ lastTick' = "idle"
          /\ UNCHANGED <<lastRead, analyserType>>
     ELSE \E db \in FrameLevels, throws \in BOOLEAN, beatThrows \in BOOLEAN :
            IF ReadResult(analyser, throws) = "null"
            THEN /\ FrequencyRead(throws)
                 /\ positions' = pos
                 /\ lastTick' = "nodata"
            ELSE /\ FrequencyRead(beatThrows)
                 /\ positions' = ScalePositions(pos, db,
                        DetectBeat(db, ReadResult(analyser, beatThrows) # "null"))
                 /\ \A i \in DOMAIN pos : positions'[i] <= MaxRadius
                 /\ lastTick' = "drew"

(***************************************************************************)
(* The frame callbacks of the 2D renderers.                                *)
(***************************************************************************)
\* draw() of VisualizationCanvas (VisualizationCanvas.tsx:124-272): it
\* reads the analyser itself -- getValue(), set waveform, getValue(), set
\* fft -- and its catch block returns without requesting a frame
DrawCanvas(pend, playing) ==
  \E throwAt \in {"none", "first", "second"} :
    /\ analyserType' = IF throwAt = "none" THEN "fft"
                       ELSE IF throwAt = "second" THEN "waveform"
                       ELSE analyserType
    /\ IF throwAt = "none"
       THEN /\ lastTick' = "drew"
            /\ Schedule(pend, animationRef, playing)
       ELSE /\ lastTick' = "error"
            /\ NoSchedule(pend)
    /\ UNCHANGED <<lastRead, positions>>

\* draw() of BarVisualizer (unnamed/part_001:23-80)
DrawBars(pend, playing) ==
  /\ IF ~playing
     THEN /\ lastTick' = "idle"
          /\ NoSchedule(pend)
          /\ UNCHANGED <<lastRead, analyserType>>
     ELSE \E throws \in BOOLEAN :
            /\ FrequencyRead(throws)
            /\ IF ReadResult(analyser, throws) = "null"
               THEN /\ lastTick' = "nodata"
                    /\ NoSchedule(pend)
               ELSE /\ lastTick' = "drew"
                    /\ Schedule(pend, animationRef, playing)
  /\ UNCHANGED positions

\* draw() of WaveformVisualizer (WaveformVisualizer.tsx:23-101)
DrawWaveform(pend, playing) ==
  /\ IF ~playing
     THEN /\ lastTick' = "idle"
          /\ NoSchedule(pend)
          /\ UNCHANGED <<lastRead, analyserType>>
     ELSE \E throws \in BOOLEAN :
            /\ WaveformRead(throws)
            /\ IF ReadResult(analyser, throws) = "null"
               THEN /\ lastTick' = "nodata"
                    /\ NoSchedule(pend)
               ELSE /\ lastTick' = "drew"
                    /\ Schedule(pend, animationRef, playing)
  /\ UNCHANGED positions

(***************************************************************************)
(* The loop effect of each component, run with the props of the render     *)
(* that scheduled it.                                                      *)
(***************************************************************************)
\* VisualizationCanvas.tsx:113-123, 275: without playback or audioData the
\* effect cancels the handle in the ref and starts nothing
StartCanvas(pend, ref, playing, data) ==
  /\ IF ~playing \/ data = "null"
     THEN /\ pending' = CancelAnimationFrame(pend, ref)
          /\ animationRef' = ref
          /\ UNCHANGED nextHandle
     ELSE Schedule(pend, ref, playing)
  /\ UNCHANGED <<positions, lastTick, lastRead, analyserType>>

\* unnamed/part_001:16-83 and WaveformVisualizer.tsx:16-104
StartBars(pend, ref, playing) ==
  /\ Schedule(pend, ref, playing)
  /\ UNCHANGED <<positions, lastTick, lastRead, analyserType>>

\* unnamed/part_000:41-181: a new scene with new particles at random
\* positions, then animate() is called directly
StartParticles(pend, ref, playing) ==
  \E fresh \in [1..ModelParticles -> InitRadii] :
    Animate(fresh, pend, ref, playing)

StartEffect(pend, ref, playing, data) ==
  IF component = "canvas" THEN StartCanvas(pend, ref, playing, data)
  ELSE IF component = "particles" THEN StartParticles(pend, ref, playing)
  ELSE StartBars(pend, ref, playing)

\* a dependency of the loop effect changed: cleanup, then the effect again
Rerun(playing, data) ==
  StartEffect(Cleanup(pending, animationRef), animationRef, playing, data)

\* nothing of the loop is touched
LoopUntouched ==
  UNCHANGED <<pending, animationRef, nextHandle, positions, lastTick,
              lastRead, analyserType>>

\* the part of the service a renderer never writes
ServiceUntouched ==
  /\ UNCHANGED <<currentSource, player, microphone, analyser, isPlaying,
                 nodes, probeStreams, calls, lastDone>>
  /\ UNCHANGED <<drawVars, calc>>

(***************************************************************************)
(* Life cycle and re-renders.                                              *)
(***************************************************************************)
\* the component mounts with fresh refs and its effects run; the canvas
\* takes the size of its bounding box (resizeCanvas,
\* VisualizationCanvas.tsx:89-100), the others their width/height props
Mount ==
  /\ ~mounted
  /\ mounted' = TRUE
  /\ IF component = "canvas"
     THEN surface' \in Resolutions
     ELSE surface' = resolution
  /\ StartEffect(pending, 0, propIsPlaying, audioData)
  /\ last' = "mount"
  /\ UNCHANGED <<component, propIsPlaying, audioData, settingsType,
                 resolution, ranUnmounted>>
  /\ ServiceUntouched

\* the component unmounts: the cleanups run (VisualizationCanvas.tsx:106-109
\* and 278-280, unnamed/part_001:86-90, unnamed/part_000:195-211)
Unmount ==
  /\ mounted
  /\ mounted' = FALSE
  /\ pending' = Cleanup(pending, animationRef)
  /\ last' = "unmount"
  /\ UNCHANGED <<component, propIsPlaying, audioData, settingsType,
                 resolution, surface, animationRef, nextHandle, lastTick,
                 ranUnmounted, positions, lastRead, analyserType>>
  /\ ServiceUntouched

\* setIsPlaying of the provider (AudioContext.tsx:84-121) with a new value
SetPlaying ==
  /\ propIsPlaying' = ~propIsPlaying
  /\ IF mounted
     THEN Rerun(~propIsPlaying, audioData) /\ last' = "rerun"
     ELSE LoopUntouched /\ last' = "props"
  /\ UNCHANGED <<component, mounted, audioData, settingsType, resolution,
                 surface, ranUnmounted>>
  /\ ServiceUntouched

\* setAudioData of the provider (AudioContext.tsx:51-72): a new object for
\* a new source, or null
SetAudioData ==
  /\ \E data \in {"null", "data"} :
       /\ ~(data = "null" /\ audioData = "null")
       /\ audioData' = data
       /\ IF mounted
          THEN Rerun(propIsPlaying, data) /\ last' = "rerun"
          ELSE LoopUntouched /\ last' = "props"
  /\ UNCHANGED <<component, mounted, propIsPlaying, settingsType,
                 resolution, surface, ranUnmounted>>
  /\ ServiceUntouched

\* updateSettings({type}) while VisualizationCanvas is the renderer
\* (VisualizationSettings.tsx:80-119); the effect depends on settings.type
SetType ==
  /\ component = "canvas"
  /\ \E type \in VisualizationTypes \ {settingsType} : settingsType' = type
  /\ IF mounted
     THEN Rerun(propIsPlaying, audioData) /\ last' = "rerun"
     ELSE LoopUntouched /\ last' = "props"
  /\ UNCHANGED <<component, mounted, propIsPlaying, audioData, resolution,
                 surface, ranUnmounted>>
  /\ ServiceUntouched

\* updateSettings({resolution}) (VisualizationSettings.tsx:33-35): new
\* width/height props and a new settings object.  The effects of the
\* container's renderers depend on them; the canvas effect does not.
SetResolution ==
  /\ \E size \in Resolutions \ {resolution} :
       /\ resolution' = size
       /\ IF mounted /\ component # "canvas"
          THEN /\ surface' = size
               /\ Rerun(propIsPlaying, audioData)
               /\ last' = "rerun"
          ELSE /\ LoopUntouched
               /\ last' = "props"
               /\ UNCHANGED surface
  /\ UNCHANGED <<component, mounted, propIsPlaying, audioData,
                 settingsType, ranUnmounted>>
  /\ ServiceUntouched

\* the window's resize event: resizeCanvas (VisualizationCanvas.tsx:89-97)
\* gives the canvas its new box; handleResize (unnamed/part_000:184-190)
\* sets the renderer to the width/height of its closure
WindowResize ==
  /\ mounted
  /\ component \in {"canvas", "particles"}
  /\ IF component = "canvas"
     THEN surface' \in Resolutions \ {surface}
     ELSE surface' = resolution
  /\ last' = "resize"
  /\ LoopUntouched
  /\ UNCHANGED <<component, mounted, propIsPlaying, audioData,
                 settingsType, resolution, ranUnmounted>>
  /\ ServiceUntouched

\* what every frame callback leaves alone, and the record that one ran
FrameRan ==
  /\ ranUnmounted' = (ranUnmounted \/ ~mounted)
  /\ last' = "frame"
  /\ UNCHANGED <<component, mounted, propIsPlaying, audioData,
                 settingsType, resolution, surface>>
  /\ ServiceUntouched

\* the browser fires a requested frame
CanvasFrame ==
  /\ component = "canvas"
  /\ \E f \in pending : DrawCanvas(pending \ {f}, f.playing)
  /\ FrameRan

BarsFrame ==
  /\ component = "bars"
  /\ \E f \in pending : DrawBars(pending \ {f}, f.playing)
  /\ FrameRan

WaveformFrame ==
  /\ component = "waveform"
  /\ \E f \in pending : DrawWaveform(pending \ {f}, f.playing)
  /\ FrameRan

ParticlesFrame ==
  /\ component = "particles"
  /\ \E f \in pending : Animate(positions, pending \ {f}, animationRef, f.playing)
  /\ FrameRan

InitLoop ==
  /\ AudioConstructed
  /\ \E k \in Components : ViewUnmounted(k)

NextLoop ==
  \/ Mount
  \/ Unmount
  \/ SetPlaying
  \/ SetAudioData
  \/ SetType
  \/ SetResolution
  \/ WindowResize
  \/ CanvasFrame
  \/ BarsFrame
  \/ WaveformFrame
  \/ ParticlesFrame

SpecLoop == InitLoop /\ [][NextLoop]_vars

(***************************************************************************)
(* Claims about the render loop.                                           *)
(***************************************************************************)

\* C4: disposal cancels the loop -- once a renderer is unmounted no frame
\* request of it is outstanding and none of its frame callbacks ever runs
\* again, also when the unmount follows the mount at once.
FramesDisposed ==
  /\ ~ranUnmounted
  /\ ~mounted => pending = {}

\* unmounted with a frame requested that never got to run
UnmountedBeforeFirstFrame ==
  /\ ~mounted
  /\ last = "unmount"
  /\ animationRef > 0
  /\ lastTick = "none"

\* C5: cancellation precedes restart -- whatever re-render or unmount
\* happens, at most one frame request is pending, and it is the one of the
\* loop started last (its handle is in the ref, its closure has the current
\* isPlaying).
SinglePendingFrame ==
  /\ Cardinality(pending) <= 1
  /\ \A f \in pending : f.id = animationRef /\ f.playing = propIsPlaying

\* a loop restarted by a dependency change while the frame of the loop
\* before it had been requested and had not run yet
RestartedOverPendingFrame ==
  /\ mounted
  /\ last = "rerun"
  /\ lastTick = "none"
  /\ nextHandle >= 3
  /\ pending # {}

\* C6: a frame callback whose data read fails (null data or an exception)
\* still requests the next frame.
ReadFailureReschedules ==
  (mounted /\ last = "frame" /\ lastTick \in {"nodata", "error"})
    => pending # {}

\* C7: while the renderer is mounted a frame request is pending in every
\* state, playing or not.
LoopNeverHalts == mounted => pending # {}

\* C8: a change of the render surface's size while particles exist leaves
\* every particle where it is.
ResizeKeepsParticles ==
  [][(mounted /\ mounted' /\ positions # <<>> /\ surface' # surface)
       => positions' = positions]_vars

(***************************************************************************)
(* Waveform drawing.  Samples are in hundredths (-100..100 for -1..1),     *)
(* y-coordinates in 1/YUnit of a pixel; all products stay exact.           *)
(***************************************************************************)
YUnit == 10000

\* canvas heights followed: the heights of the resolution presets
Heights == {720, 1080, 1280}

\* settings.sensitivity: the slider's 0..100 (VisualizationSettings.tsx:
\* 132-139); the default settings have 1
Sensitivities == {0, 1, 50, 100}

Samples == {-100, -50, 0, 50, 100}

Min(a, b) == IF a < b THEN a ELSE b

Max(a, b) == IF a > b THEN a ELSE b

\* `const margin = 6`
Margin == 6

\* maxAmplitude = height / 2 - margin, in pixels
MaxAmplitude(height) == height \div 2 - Margin

\* main trace (WaveformVisualizer.tsx:46, 58-64):
\* y = height/2 + max(-maxAmplitude, min(sample * amplitude, maxAmplitude))
\* with amplitude = maxAmplitude * sensitivity / 100
MainTraceY(height, sensitivity, sample) ==
  (height * YUnit) \div 2
    + Max(-(MaxAmplitude(height) * YUnit),
          Min(sample * MaxAmplitude(height) * sensitivity,
              MaxAmplitude(height) * YUnit))

\* mirror trace (WaveformVisualizer.tsx:86):
\* y = height/2 - sample * height/2 * sensitivity
MirrorTraceY(height, sensitivity, sample) ==
  (height * YUnit) \div 2 - sample * (height \div 2) * sensitivity * 100

\* timeData[i] = min(255, max(0, (sample + 1) * 127.5)) stored in a
\* Uint8Array (VisualizationCanvas.tsx:159)
TimeByte(sample) == Min(255, Max(0, ((sample + 100) * 1275) \div 1000))

\* applySensitivity (VisualizationCanvas.tsx:168-175)
ApplySensitivity(byte, sensitivity) == Min(255, Max(0, byte * sensitivity))

\* settings.amplification of the default settings, in tenths
AmplificationTenths == 15

\* drawWaveform (VisualizationCanvas.tsx:551-556):
\* y = centerY + (byte / 128 - 1) * amplification * centerY / 2
CanvasTraceY(height, byte) ==
  (height \div 2) * YUnit
    + ((byte - 128) * AmplificationTenths * (height \div 2) * 125) \div 32

\* draw() of WaveformVisualizer strokes the main trace and its mirror
WaveformVisualizerDraw ==
  /\ \E height \in Heights, sensitivity \in Sensitivities, sample \in Samples :
       trace' = [renderer |-> "WaveformVisualizer",
                 height |-> height,
                 sensitivity |-> sensitivity,
                 sample |-> sample,
                 ys |-> <<MainTraceY(height, sensitivity, sample),
                          MirrorTraceY(height, sensitivity, sample)>>]
  /\ UNCHANGED <<audioVars, loopVars, bandMap, calc>>

\* drawWaveform of VisualizationCanvas strokes from (0, centerY) through
\* the samples to (width, centerY)
CanvasDrawWaveform ==
  /\ \E height \in Heights, sensitivity \in Sensitivities, sample \in Samples :
       trace' = [renderer |-> "VisualizationCanvas",
                 height |-> height,
                 sensitivity |-> sensitivity,
                 sample |-> sample,
                 ys |-> <<(height \div 2) * YUnit,
                          CanvasTraceY(height,
                            ApplySensitivity(TimeByte(sample), sensitivity))>>]
  /\ UNCHANGED <<audioVars, loopVars, bandMap, calc>>

InitWaveform == AudioConstructed /\ ViewUnmounted("waveform")

NextWaveform ==
  \/ WaveformVisualizerDraw
  \/ CanvasDrawWaveform

SpecWaveform == InitWaveform /\ [][NextWaveform]_vars

\* C9: every y-coordinate a waveform renderer strokes lies within
\* [margin, canvasHeight - margin], for every sensitivity of the valid range
\* and every sample in [-1, 1].
WaveformWithinMargins ==
  \A i \in DOMAIN trace.ys :
    /\ trace.ys[i] >= Margin * YUnit
    /\ trace.ys[i] <= (trace.height - Margin) * YUnit

(***************************************************************************)
(* Frequency banding of the bar renderers.  Frequencies are in 1/100 Hz.   *)
(* TLA+ has no real numbers: the centre frequencies                        *)
(*   10 ^ (log10(20) + (i / n) * (log10(20000) - log10(20))),  i = 0..n-1  *)
(* are tabulated, rounded down, for the band counts the renderers can      *)
(* reach here; the bin index computed from the table equals the one        *)
(* double arithmetic gives for every length followed.                      *)
(***************************************************************************)
CenterFrequencies(n) ==
  CASE n = 4 ->
          <<2000, 11246, 63245, 355655>>
    [] n = 5 ->
          <<2000, 7962, 31697, 126191, 502377>>
    [] n = 6 ->
          <<2000, 6324, 20000, 63245, 200000, 632455>>
    [] n = 7 ->
          <<2000, 5365, 14393, 38613, 103589, 277899, 745518>>
    [] n = 8 ->
          <<2000, 4742, 11246, 26670, 63245, 149978, 355655, 843393>>
    [] n = 9 ->
          <<2000, 4308, 9283, 20000, 43088, 92831, 200000, 430886, 928317>>
    [] n = 10 ->
          <<2000, 3990, 7962, 15886, 31697, 63245, 126191, 251785, 502377,
          1002374>>
    [] n = 11 ->
          <<2000, 3747, 7022, 13158, 24656, 46202, 86575, 162226, 303982,
          569607, 1067339>>
    [] n = 12 ->
          <<2000, 3556, 6324, 11246, 20000, 35565, 63245, 112468, 200000,
          355655, 632455, 1124682>>
    [] n = 182 ->
          <<2000, 2077, 2157, 2241, 2327, 2417, 2511, 2608, 2709, 2814,
          2923, 3036, 3153, 3275, 3402, 3534, 3670, 3812, 3960,
          4113, 4272, 4437, 4609, 4787, 4973, 5165, 5365, 5572,
          5788, 6012, 6245, 6486, 6737, 6998, 7268, 7550, 7842,
          8145, 8460, 8787, 9127, 9481, 9847, 10228, 10624, 11035,
          11462, 11905, 12366, 12844, 13341, 13857, 14393, 14950,
          15528, 16129, 16753, 17401, 18074, 18774, 19500, 20254,
          21038, 21852, 22697, 23575, 24487, 25434, 26418, 27440,
          28502, 29604, 30749, 31939, 33174, 34458, 35791, 37175,
          38613, 40107, 41659, 43270, 44944, 46683, 48489, 50365,
          52313, 54337, 56439, 58622, 60890, 63245, 65692, 68233,
          70872, 73614, 76462, 79420, 82492, 85683, 88998, 92441,
          96017, 99731, 103589, 107596, 111759, 116082, 120572,
          125237, 130081, 135113, 140340, 145769, 151408, 157265,
          163349, 169668, 176232, 183049, 190130, 197485, 205125,
          213060, 221302, 229863, 238755, 247991, 257584, 267549,
          277899, 288649, 299815, 311413, 323460, 335973, 348970,
          362469, 376491, 391055, 406183, 421896, 438217, 455169,
          472777, 491066, 510062, 529793, 550288, 571575, 593686,
          616653, 640507, 665285, 691021, 717753, 745518, 774358,
          804313, 835428, 867746, 901314, 936180, 972396, 1010012,
          1049083, 1089666, 1131819, 1175603, 1221080, 1268316,
          1317380, 1368342, 1421275, 1476256, 1533364, 1592681,
          1654292, 1718287, 1784758, 1853800, 1925513>>

\* nyquist = 22050, in 1/100 Hz
NyquistCentiHz == 2205000

\* frequencyData.length / data.length: sizes of the analyser followed
\* (the service creates it with size 1024)
Lengths == {256, 512, 1024}

\* settings.numFrequencyBands: the slider's 4..12
\* (VisualizationSettings.tsx:308-316)
BandSettings == 4..12

\* width of the canvas' box in CSS pixels
CanvasWidths == {28, 56, 84, 1280}

\* a band count clamp with min and max exchanged
NumBandsSwapped(setting) ==
  Min(4, Max(IF setting = 0 THEN 8 ELSE setting, 12))

\* numBands = Math.max(4, Math.min(settings.numFrequencyBands || 8, 12))
NumBands(setting) ==
  Max(4, Min(IF setting = 0 THEN 8 ELSE setting, 12))

\* settings.barWidth + settings.barSpacing of the default settings
BarPitch == 5 + 2

\* numBars = Math.min(data.length, Math.floor(width / (barWidth + barSpacing)))
NumBars(length, width) == Min(length, width \div BarPitch)

\* binIndex = Math.floor((freq / nyquist) * (length / 2)), then
\* Math.min(binIndex, length - 1)
BinIndex(freq, length) ==
  Min((freq * length) \div (NyquistCentiHz * 2), length - 1)

\* the freqBins loop (unnamed/part_001:56-62,
\* VisualizationCanvas.tsx:305-316): one band per i in 0..count-1
FreqBins(count, length) ==
  [b \in 1..count |->
     [centerFrequency |-> CenterFrequencies(count)[b],
      binIndex |-> BinIndex(CenterFrequencies(count)[b], length)]]

\* draw() of BarVisualizer maps with the clamped setting
BarVisualizerBands ==
  /\ \E setting \in BandSettings, length \in Lengths :
       bandMap' = [renderer |-> "BarVisualizer",
                   requested |-> setting,
                   count |-> setting,
                   length |-> length,
                   freqBins |-> FreqBins(NumBands(setting), length)]
  /\ UNCHANGED <<audioVars, loopVars, trace, calc>>

\* drawBars of VisualizationCanvas maps with as many bars as fit the
\* width; settings.numFrequencyBands is not read
CanvasDrawBars ==
  /\ \E setting \in BandSettings, length \in Lengths, width \in CanvasWidths :
       bandMap' = [renderer |-> "VisualizationCanvas",
                   requested |-> setting,
                   count |-> NumBars(length, width),
                   length |-> length,
                   freqBins |-> FreqBins(NumBars(length, width), length)]
  /\ UNCHANGED <<audioVars, loopVars, trace, calc>>

InitBands == AudioConstructed /\ ViewUnmounted("bars")

NextBands ==
  \/ BarVisualizerBands
  \/ CanvasDrawBars

SpecBands == InitBands /\ [][NextBands]_vars

Levels == {-100, -50, 0}

\* a frame of `len` bins: the first `split` at `low`, the others at `high`
Frame(len, split, low, high) ==
  [i \in 1..len |-> IF i <= split THEN low ELSE high]

\* frequencyData.slice(0, 10)
BassBins == 10

BassRange(frame) == SubSeq(frame, 1, Min(BassBins, Len(frame)))

RECURSIVE SumAbs(_)
\* reduce((sum, value) => sum + Math.abs(value), 0)
SumAbs(seq) ==
  IF seq = <<>> THEN 0 ELSE Abs(Head(seq)) + SumAbs(Tail(seq))

\* `threshold: number = 0.15`, in hundredths
DefaultBeatThreshold == 15

Thresholds == {DefaultBeatThreshold, 50}

\* average > threshold with average = sum / bassRange.length; for an empty
\* range the average is 0/0 = NaN and the comparison is false
BeatOf(frame, threshold) ==
  /\ BassRange(frame) # <<>>
  /\ SumAbs(BassRange(frame)) * 100 > threshold * Len(BassRange(frame))

\* detectBeat: false without frequency data, else the comparison
DetectBeatResult(readable, frame, threshold) ==
  readable /\ BeatOf(frame, threshold)

\* a call of detectBeat(threshold): its own getFrequencyData(), then the
\* test on what it returned
DetectBeatCall ==
  /\ \E len \in {0, 4, 10, 16}, split \in {0, 2, 5, 10}, low \in Levels,
        high \in Levels, threshold \in Thresholds, throws \in BOOLEAN :
       /\ FrequencyRead(throws)
       /\ calc' = [calc EXCEPT !.beat =
            [called |-> TRUE,
             frame |-> Frame(len, split, low, high),
             threshold |-> threshold,
             readable |-> (ReadResult(analyser, throws) # "null"),
             result |-> DetectBeatResult(ReadResult(analyser, throws) # "null",
                                         Frame(len, split, low, high),
                                         threshold)]]
  /\ UNCHANGED <<currentSource, player, microphone, analyser, isPlaying,
                 nodes, probeStreams, calls, lastDone>>
  /\ UNCHANGED <<loopVars, drawVars>>

InitBeat == AudioConstructed /\ ViewUnmounted("canvas")

NextBeat == DetectBeatCall

SpecBeat == InitBeat /\ [][NextBeat]_vars

\* a level normalized to [0, 1], in hundredths: (db + 100) / 100, clamped
NormalizedLevel(db) == Max(0, Min(db + 100, 100))

RECURSIVE SumNormalized(_)
SumNormalized(seq) ==
  IF seq = <<>> THEN 0
  ELSE NormalizedLevel(Head(seq)) + SumNormalized(Tail(seq))

\* C11: detectBeat(threshold) is true exactly when frequency data is
\* available and the mean of the normalized [0,1] magnitudes of bins 0..9
\* of the frame exceeds the threshold.
BeatIffNormalizedMeanAbove ==
  calc.beat.called =>
    (calc.beat.result <=>
       /\ calc.beat.readable
       /\ BassRange(calc.beat.frame) # <<>>
       /\ SumNormalized(BassRange(calc.beat.frame))
            > calc.beat.threshold * Len(BassRange(calc.beat.frame)))

(***************************************************************************)
(* From a level in dB to a visual value, per renderer.  Values are in      *)
(* hundredths.                                                             *)
(***************************************************************************)
\* levels the analyser can hand out: getFloatFrequencyData is not limited
\* to the [-100, 0] window
DbInputs == {-120, -100, -80, -50, -20, 0, 10}

\* BarVisualizer (unnamed/part_001:67):
\* normalizedValue = (frequencyData[dataIndex] + 100) / 100
BarNormalizedValue(db) == db + 100

RECURSIVE SumAudioValues(_)
SumAudioValues(band) ==
  IF band = <<>> THEN 0
  ELSE AudioValuePct(Head(band)) + SumAudioValues(Tail(band))

\* GeometricVisualizer.tsx:117-124: the mean over a band of
\* ((frequencyData[j] || -80) + 100) / 100, for a band that is not empty
GeometricAverage(band) == SumAudioValues(band) \div Len(band)

BarNormalize ==
  /\ \E db \in DbInputs :
       calc' = [NoCalc EXCEPT !.norm =
         [renderer |-> "BarVisualizer", db |-> db,
          value |-> BarNormalizedValue(db)]]
  /\ UNCHANGED <<audioVars, loopVars, drawVars>>

ParticleNormalize ==
  /\ \E db \in DbInputs :
       calc' = [NoCalc EXCEPT !.norm =
         [renderer |-> "ParticleVisualizer", db |-> db,
          value |-> AudioValuePct(db)]]
  /\ UNCHANGED <<audioVars, loopVars, drawVars>>

\* a band all at one level
GeometricNormalize ==
  /\ \E db \in DbInputs :
       calc' = [NoCalc EXCEPT !.norm =
         [renderer |-> "GeometricVisualizer", db |-> db,
          value |-> GeometricAverage(<<db, db>>)]]
  /\ UNCHANGED <<audioVars, loopVars, drawVars>>

\* C12: a renderer's visual value for a level in dB is (db + 100) / 100
\* clamped to [0, 1]: -100 gives 0, 0 gives 1, anything outside [-100, 0]
\* still gives a value in [0, 1].
NormalizedAndClamped ==
  calc.norm.renderer # "none" =>
    calc.norm.value = Max(0, Min(calc.norm.db + 100, 100))

(***************************************************************************)
(* setVolume / getVolume (AudioService.ts:328-357).  Volumes are in        *)
(* 1/10000 (10000 is 1.0), gains in 1/100 dB.                              *)
(***************************************************************************)
VolumeOne == 10000

\* arguments followed: below, inside and above [0, 1]; the slider of
\* VolumeControl gives multiples of 0.01, the method takes any number
VolumeInputs == {-5000, 0, 1, 2, 3, 4, 50, 100, 2500, 5000, 10000, 15000}

\* Math.max(0, Math.min(1, volume))
ClampVolume(v) == Max(0, Min(VolumeOne, v))

\* 20 * Math.log10(v), rounded to 1/100 dB, for the volumes followed
TwentyLog10(v) ==
  CASE v = 1 -> -8000
    [] v = 2 -> -7398
    [] v = 3 -> -7046
    [] v = 4 -> -6796
    [] v = 50 -> -4602
    [] v = 100 -> -4000
    [] v = 2500 -> -1204
    [] v = 5000 -> -602
    [] v = 10000 -> 0

\* `let decibelValue = -70`, in 1/100 dB
NearMuteGain == -7000

\* decibelValue: -70 for zero, 20 * log10 otherwise
GainOf(clamped) ==
  IF clamped > 0 THEN TwentyLog10(clamped) ELSE NearMuteGain

\* setVolume(v) on the service as constructed (the volume node exists)
SetVolume ==
  /\ \E v \in VolumeInputs :
       calc' = [calc EXCEPT !.volume =
         [called |-> TRUE,
          requested |-> v,
          current |-> ClampVolume(v),
          gain |-> GainOf(ClampVolume(v)),
          prevCurrent |-> calc.volume.current,
          prevGain |-> calc.volume.gain]]
  /\ UNCHANGED <<audioVars, loopVars, drawVars>>

InitVolume == AudioConstructed /\ ViewUnmounted("canvas")

NextVolume == SetVolume

SpecVolume == InitVolume /\ [][NextVolume]_vars

\* C13: setVolume(v) stores v clamped to [0, 1]; volume 0 gives the finite
\* near-silent gain of -70 dB, volume 1 gives 0 dB, and of two volumes the
\* smaller one always gets the strictly smaller gain.
VolumeMappingMonotone ==
  calc.volume.called =>
    /\ calc.volume.current = Max(0, Min(VolumeOne, calc.volume.requested))
    /\ calc.volume.current = 0 => calc.volume.gain = -7000
    /\ calc.volume.current = VolumeOne => calc.volume.gain = 0
    /\ calc.volume.prevCurrent < calc.volume.current
         => calc.volume.prevGain < calc.volume.gain
    /\ calc.volume.prevCurrent > calc.volume.current
         => calc.volume.prevGain > calc.volume.gain

(***************************************************************************)
(* VisualizationProvider (AudioContext.tsx:297-324).  Settings objects     *)
(* live in a heap of immutable-by-convention JavaScript objects; the       *)
(* provider state `settings` and every preset hold references (indices)    *)
(* into it, so that sharing and in-place modification can be told apart.   *)
(* Three of the fields of VisualizationSettings are followed.              *)
(***************************************************************************)
MaxObjects == 4
MaxPresets == 2

SettingsFields == {"type", "sensitivity", "numFrequencyBands"}

\* Partial<VisualizationSettings>: a set of <<field, value>> pairs, at most
\* one per field
Updates ==
  { {<<"type", "waveform2d">>},
    {<<"type", "bars2d">>},
    {<<"sensitivity", 50>>},
    {<<"numFrequencyBands", 12>>},
    {<<"type", "waveform2d">>, <<"numFrequencyBands", 8>>},
    {<<"sensitivity", 100>>, <<"numFrequencyBands", 12>>},
    {} }

Named(updates) == { u[1] : u \in updates }

ValueIn(updates, f) == (CHOOSE u \in updates : u[1] = f)[2]

\* { ...prev, ...updates }
Spread(prev, updates) ==
  [f \in SettingsFields |->
     IF f \in Named(updates) THEN ValueIn(updates, f) ELSE prev[f]]

\* the state setter writing into the object it was given
SetSettingsInPlace(st, object) ==
  [st EXCEPT !.heap = [st.heap EXCEPT ![st.current] = object]]

\* setSettings(prev => ({ ...prev, ...updates })): the object literal is a
\* new object, and the state refers to it afterwards
SetSettings(st, object) ==
  [st EXCEPT !.heap = Append(st.heap, object), !.current = Len(st.heap) + 1]

UpdateSettings ==
  /\ Len(calc.settings.heap) < MaxObjects
  /\ \E updates \in Updates :
       calc' = [calc EXCEPT !.settings =
         [SetSettings(calc.settings,
                      Spread(calc.settings.heap[calc.settings.current], updates))
            EXCEPT !.op = [name |-> "updateSettings", updates |-> updates,
                           preset |-> 0, from |-> calc.settings.current]]]
  /\ UNCHANGED <<audioVars, loopVars, drawVars>>

\* settings: { ...settings } is a new object with the same field values
SavePreset ==
  /\ Len(calc.settings.heap) < MaxObjects
  /\ Len(calc.settings.presets) < MaxPresets
  /\ calc' = [calc EXCEPT !.settings =
       [@ EXCEPT !.heap = Append(@, calc.settings.heap[calc.settings.current]),
                 !.presets = Append(@, [settings |-> Len(calc.settings.heap) + 1]),
                 !.op = [name |-> "savePreset", updates |-> {},
                         preset |-> Len(calc.settings.presets) + 1,
                         from |-> calc.settings.current]]]
  /\ UNCHANGED <<audioVars, loopVars, drawVars>>

\* setSettings(preset.settings) when the preset is found: the state refers
\* to the preset's own object
LoadPreset ==
  /\ \E presetId \in 1..MaxPresets :
       calc' = [calc EXCEPT !.settings =
         [@ EXCEPT !.current =
                     IF presetId <= Len(calc.settings.presets)
                       THEN calc.settings.presets[presetId].settings
                       ELSE @,
                   !.op = [name |-> "loadPreset", updates |-> {},
                           preset |-> presetId,
                           from |-> calc.settings.current]]]
  /\ UNCHANGED <<audioVars, loopVars, drawVars>>

InitSettings == AudioConstructed /\ ViewUnmounted("canvas")

NextSettings ==
  \/ UpdateSettings
  \/ SavePreset
  \/ LoadPreset

SpecSettings == InitSettings /\ [][NextSettings]_vars

\* C14: every settings operation replaces the settings object as a whole:
\* no existing object (the previous settings, a preset's snapshot) is ever
\* modified, no preset is changed by a later operation, an update yields a
\* new object in which the fields named by the update have the given values
\* and every other field keeps its previous value, and loading a preset
\* makes the preset's values the current ones.
SettingsReplacedAtomically ==
  [][ /\ \A i \in 1..Len(calc.settings.heap) :
           calc'.settings.heap[i] = calc.settings.heap[i]
      /\ \A p \in 1..Len(calc.settings.presets) :
           calc'.settings.presets[p] = calc.settings.presets[p]
      /\ calc'.settings.op.name = "updateSettings" =>
           /\ calc'.settings.current \notin 1..Len(calc.settings.heap)
           /\ \A f \in SettingsFields :
                calc'.settings.heap[calc'.settings.current][f] =
                  IF f \in Named(calc'.settings.op.updates)
                    THEN ValueIn(calc'.settings.op.updates, f)
                    ELSE calc.settings.heap[calc.settings.current][f]
      /\ calc'.settings.op.name = "savePreset" =>
           /\ calc'.settings.current = calc.settings.current
           /\ calc'.settings.heap[calc'.settings.presets[calc'.settings.op.preset].settings]
                = calc.settings.heap[calc.settings.current]
      /\ calc'.settings.op.name = "loadPreset" =>
           calc'.settings.heap[calc'.settings.current] =
             IF calc'.settings.op.preset <= Len(calc.settings.presets)
               THEN calc.settings.heap[calc.settings.presets[calc'.settings.op.preset].settings]
               ELSE calc.settings.heap[calc.settings.current]
    ]_vars

\* a preset was loaded, so that the current settings were the preset's own
\* object, and an update then changed a field: the current settings differ
\* from the preset
UpdatedAfterLoadingPreset ==
  /\ calc.settings.op.name = "updateSettings"
  /\ calc.settings.presets # <<>>
  /\ calc.settings.op.from = calc.settings.presets[1].settings
  /\ calc.settings.heap[calc.settings.current]
       # calc.settings.heap[calc.settings.presets[1].settings]

(***************************************************************************)
(* AudioProvider (AudioContext.tsx:43-122) on top of the service: each     *)
(* provider method calls the service method, awaits it, and sets the       *)
(* provider state in the continuation.  One provider method runs at a      *)
(* time.                                                                   *)
(***************************************************************************)
\* the exceptions that reach the catch block of AudioService.initMicrophone,
\* by failure mode: DOMException names of getUserMedia / UserMedia.open, and
\* the Error thrown at AudioService.ts:189 when navigator.mediaDevices is
\* missing, as it is in an insecure context
MicrophoneErrors(mode) ==
  CASE mode = "denied" -> {[name |-> "NotAllowedError", getUserMedia |-> FALSE],
                           [name |-> "PermissionDeniedError", getUserMedia |-> FALSE]}
    [] mode = "notFound" -> {[name |-> "NotFoundError", getUserMedia |-> FALSE],
                             [name |-> "DevicesNotFoundError", getUserMedia |-> FALSE]}
    [] mode = "busy" -> {[name |-> "NotReadableError", getUserMedia |-> FALSE],
                         [name |-> "TrackStartError", getUserMedia |-> FALSE]}
    [] mode = "insecure" -> {[name |-> "Error", getUserMedia |-> FALSE],
                             [name |-> "TypeError", getUserMedia |-> TRUE]}

FailureModes == {"denied", "notFound", "busy", "insecure"}

\* the catch block of AudioService.initMicrophone: the message of the Error
\* it throws (getUserMedia: error.message includes 'getUserMedia')
MicrophoneErrorMessage(error) ==
  IF error.name \in {"NotAllowedError", "PermissionDeniedError"}
    THEN "Microphone access denied. Please grant permission in your browser settings."
  ELSE IF error.name \in {"NotFoundError", "DevicesNotFoundError"}
    THEN "No microphone found. Please connect a microphone and try again."
  ELSE IF error.name \in {"NotReadableError", "TrackStartError"}
    THEN "Microphone is in use by another application. Please close other applications and try again."
  ELSE IF error.name = "OverconstrainedError"
    THEN "Microphone constraints cannot be satisfied. Please try a different microphone."
  ELSE IF error.name = "TypeError" /\ error.getUserMedia
    THEN "Browser security requires HTTPS for microphone access."
  ELSE "Could not access microphone: Browser does not support audio input"

\* the catch block of AudioProvider.initMicrophone: what setError receives
ProviderErrorMessage(thrown) ==
  "Could not access microphone. Please ensure you have granted microphone permissions."

\* a provider method up to its `await audioService...`: the service method
\* runs to its first await; initMicrophone clears the error first
ProviderCall(op) ==
  /\ calc.provider.pending = "none"
  /\ StartCall(op)
  /\ calc' = [calc EXCEPT !.provider =
       [@ EXCEPT !.pending = op, !.settled = "none",
                 !.error = IF op = "initMicrophone" THEN "null" ELSE @]]
  /\ UNCHANGED <<loopVars, drawVars>>

LoadFile == ProviderCall("loadAudioFile")

LoadStream == ProviderCall("loadStreamUrl")

ProviderInitMicrophone == ProviderCall("initMicrophone")

\* the service method the provider awaits goes on
ServiceContinues ==
  /\ calc.provider.pending # "none"
  /\ \/ LoadAudioFileResume
     \/ LoadStreamUrlResume
     \/ InitMicrophoneAfterStop
     \/ InitMicrophoneProbe
     \/ InitMicrophoneOpen

\* loadFile / loadStream after the await:
\* setCurrentSource(source); setIsPlaying(false)
LoadResolved ==
  /\ calc.provider.pending \in {"loadAudioFile", "loadStreamUrl"}
  /\ calls = EmptyBag
  /\ lastDone = "started"
  /\ calc' = [calc EXCEPT !.provider =
       [@ EXCEPT !.pending = "none", !.settled = "resolved",
                 !.currentSource = currentSource.type,
                 !.isPlaying = FALSE]]
  /\ UNCHANGED <<audioVars, loopVars, drawVars>>

\* initMicrophone after the await: setCurrentSource(source); setIsPlaying(true)
InitMicrophoneResolved ==
  /\ calc.provider.pending = "initMicrophone"
  /\ calls = EmptyBag
  /\ lastDone = "started"
  /\ calc' = [calc EXCEPT !.provider =
       [@ EXCEPT !.pending = "none", !.settled = "resolved",
                 !.currentSource = currentSource.type,
                 !.isPlaying = TRUE]]
  /\ UNCHANGED <<audioVars, loopVars, drawVars>>

\* initMicrophone's catch: the service rejected with the message for the
\* error that occurred; setError(...) and nothing else
InitMicrophoneRejected ==
  /\ calc.provider.pending = "initMicrophone"
  /\ calls = EmptyBag
  /\ lastDone = "failed"
  /\ \E mode \in FailureModes : \E error \in MicrophoneErrors(mode) :
       calc' = [calc EXCEPT !.provider =
         [@ EXCEPT !.pending = "none", !.settled = "rejected",
                   !.mode = mode,
                   !.thrown = MicrophoneErrorMessage(error),
                   !.error = ProviderErrorMessage(MicrophoneErrorMessage(error)),
                   !.prevMode = calc.provider.mode,
                   !.prevError = IF calc.provider.mode = "none" THEN "null"
                                 ELSE ProviderErrorMessage(calc.provider.thrown)]]
  /\ UNCHANGED <<audioVars, loopVars, drawVars>>

InitProvider == AudioConstructed /\ ViewUnmounted("canvas")

NextProvider ==
  \/ LoadFile
  \/ LoadStream
  \/ ProviderInitMicrophone
  \/ ServiceContinues
  \/ LoadResolved
  \/ InitMicrophoneResolved
  \/ InitMicrophoneRejected

SpecProvider == InitProvider /\ [][NextProvider]_vars

\* C15: each microphone failure mode (permission denied, device not found,
\* device busy, insecure context) is shown to the user with a message of
\* its own: two failures of different modes never show the same message.
DistinctMicrophoneMessages ==
  /\ calc.provider.settled = "rejected"
  /\ calc.provider.prevMode # "none"
  /\ calc.provider.prevMode # calc.provider.mode
  => calc.provider.error # calc.provider.prevError

\* C16: after a source operation has failed the playback state is "no
\* source": the current source is null and isPlaying is false, in the
\* service and in the provider.
FailureRevertsToNoSource ==
  calc.provider.settled = "rejected" =>
    /\ currentSource = NoSource
    /\ ~isPlaying
    /\ calc.provider.currentSource = "null"
    /\ ~calc.provider.isPlaying

(***************************************************************************)
(* Analyser reconfiguration.  Tone.Analyser objects are numbered in the    *)
(* order of their creation.  The graph record holds the service's          *)
(* this.analyser, the analysers disposed so far, the current source with   *)
(* its `analyser` field and the analysers its node is connected to, and    *)
(* the analyser captured in the provider's audioData; `read` is the last   *)
(* per-frame read made since the last change of source or sensitivity.     *)
(***************************************************************************)
MaxAnalysers == 3

SourceTypes == {"file", "stream", "microphone"}

\* a source method of the provider from call to settled state, in
\* sequential use: the service connects the new node to this.analyser and
\* builds currentSource with `analyser: this.analyser`; the provider's
\* setCurrentSource(source) stores a new object, so the audioData effect
\* (deps [currentSource]) runs and captures currentSource.analyser
SourceStarted ==
  /\ \E type \in SourceTypes :
       calc' = [calc EXCEPT !.graph =
         [@ EXCEPT !.source = type,
                   !.sourceAnalyser = calc.graph.analyser,
                   !.connectedTo = {calc.graph.analyser},
                   !.audioData = calc.graph.analyser,
                   !.op = "source", !.replaced = 0,
                   !.read = [by |-> "none", analyser |-> 0]]]
  /\ UNCHANGED <<audioVars, loopVars, drawVars>>

\* createAnalyzer (AudioService.ts:43-113) with reconnectAudioGraph
\* (118-143): dispose the old analyser, create one, connect the current
\* source's node to it and assign currentSource.analyser in place.  The
\* provider holds the same currentSource object as before, so no effect
\* runs and audioData is left as it is.
CreateAnalyzer(g) ==
  [g EXCEPT !.disposed = @ \cup {g.analyser},
            !.analyser = g.created + 1,
            !.created = @ + 1,
            !.connectedTo = IF g.source = "none" THEN @
                            ELSE (@ \ {g.analyser}) \cup {g.created + 1},
            !.sourceAnalyser = IF g.source = "none" THEN @ ELSE g.created + 1,
            !.op = "rebuild", !.replaced = g.analyser,
            !.read = [by |-> "none", analyser |-> 0]]

\* setAnalyzerSensitivity (AudioService.ts:371-444): `success` is whether
\* a native AnalyserNode with minDecibels was found on the Tone.Analyser
\* (it depends on the Tone.js version); without it the analyser is rebuilt
SetAnalyzerSensitivity ==
  /\ \E success \in BOOLEAN :
       IF success
       THEN calc' = [calc EXCEPT !.graph =
              [@ EXCEPT !.op = "set", !.replaced = 0,
                        !.read = [by |-> "none", analyser |-> 0]]]
       ELSE /\ calc.graph.created < MaxAnalysers
            /\ calc' = [calc EXCEPT !.graph = CreateAnalyzer(calc.graph)]
  /\ UNCHANGED <<audioVars, loopVars, drawVars>>

\* getFrequencyData / getWaveformData of the service: this.analyser.getValue()
ServiceAccessorRead ==
  /\ calc' = [calc EXCEPT !.graph.read =
                [by |-> "service", analyser |-> calc.graph.analyser]]
  /\ UNCHANGED <<audioVars, loopVars, drawVars>>

\* draw of VisualizationCanvas (VisualizationCanvas.tsx:132-152): returns
\* without audioData, otherwise audioData.analyzer.getValue()
CanvasAnalyzerRead ==
  /\ calc.graph.audioData # 0
  /\ calc' = [calc EXCEPT !.graph.read =
                [by |-> "canvas", analyser |-> calc.graph.audioData]]
  /\ UNCHANGED <<audioVars, loopVars, drawVars>>

InitAnalyser == AudioConstructed /\ ViewUnmounted("canvas")

NextAnalyser ==
  \/ SourceStarted
  \/ SetAnalyzerSensitivity
  \/ ServiceAccessorRead
  \/ CanvasAnalyzerRead

SpecAnalyser == InitAnalyser /\ [][NextAnalyser]_vars

\* C17: a sensitivity change that rebuilds the analyser while a source is
\* active disposes the old analyser and connects the source to the new one,
\* and every per-frame read made while a source is active (the service's
\* accessors and the canvas loop's audioData.analyzer) is a read of the
\* service's current analyser, which is not disposed.
AnalyserContinuity ==
  /\ calc.graph.op = "rebuild" /\ calc.graph.source # "none" =>
       /\ calc.graph.replaced \in calc.graph.disposed
       /\ calc.graph.analyser \in calc.graph.connectedTo
       /\ calc.graph.sourceAnalyser = calc.graph.analyser
  /\ calc.graph.source # "none" /\ calc.graph.read.by # "none" =>
       /\ calc.graph.read.analyser = calc.graph.analyser
       /\ calc.graph.read.analyser \notin calc.graph.disposed

(***************************************************************************)
(* Colour selection.  Every colour scheme of defaultColorSchemes has six   *)
(* colours and no component adds a scheme.  Driving values are in percent, *)
(* \div rounds down as Math.floor does.                                    *)
(***************************************************************************)
SchemeColors == 6

\* ParticleVisualizer: floor(audioValue * length), then min with length - 1
ParticleColorIndex(db, n) == Min((AudioValuePct(db) * n) \div 100, n - 1)

\* GeometricVisualizer: floor(average * length), then min with length - 1
GeometricColorIndex(band, n) == Min((GeometricAverage(band) * n) \div 100, n - 1)

\* p.z when drawAsteroids3D colours a particle: at most 500 because a
\* larger z has just been reset to -500; a particle reset in the previous
\* frame has moved by speedZ * (1 + bass) >= 5 and by the high-band
\* turbulence of up to -7.5, so it can be as low as -502
Depths == {-502, -500, 0, 250, 500}

\* band averages of byte data, in percent
Intensities == {0, 50, 100}

\* drawAsteroids3D: depthFactor = (z + 500) / 1000, colorFactor =
\* depthFactor * 0.5 + midHighIntensity * 0.5, floor(colorFactor * (length - 1))
AsteroidColorIndex(z, midHighPct, n) ==
  (((z + 500) + midHighPct * 10) * (n - 1)) \div 2000

ParticleColor ==
  /\ \E db \in DbInputs :
       calc' = [NoCalc EXCEPT !.color =
         [renderer |-> "ParticleVisualizer", colors |-> SchemeColors,
          index |-> ParticleColorIndex(db, SchemeColors)]]
  /\ UNCHANGED <<audioVars, loopVars, drawVars>>

GeometricColor ==
  /\ \E a, b \in DbInputs :
       calc' = [NoCalc EXCEPT !.color =
         [renderer |-> "GeometricVisualizer", colors |-> SchemeColors,
          index |-> GeometricColorIndex(<<a, b>>, SchemeColors)]]
  /\ UNCHANGED <<audioVars, loopVars, drawVars>>

AsteroidColor ==
  /\ \E z \in Depths, midHigh \in Intensities :
       calc' = [NoCalc EXCEPT !.color =
         [renderer |-> "drawAsteroids3D", colors |-> SchemeColors,
          index |-> AsteroidColorIndex(z, midHigh, SchemeColors)]]
  /\ UNCHANGED <<audioVars, loopVars, drawVars>>

\* C18: the index used to pick a colour from the active colour scheme is
\* always an integer in [0, colors.length - 1].
ColorIndexInRange ==
  calc.color.renderer # "none" =>
    calc.color.index \in 0..(calc.color.colors - 1)

(***************************************************************************)
(* Bar heights.  A height is kept as a whole number of 1/unit pixels, the  *)
(* unit being the denominator of the renderer's own formula.               *)
(***************************************************************************)
\* bytes of the sensitized frequency data
Bytes == {0, 1, 128, 170, 171, 255}

\* value = byte / 255, amplification in tenths: 1/2550 px
CanvasBarUnit == 255 * 10

\* drawBars: Math.max(2, value * height * amplification)
CanvasBarHeight(byte, height) ==
  Max(2 * CanvasBarUnit, byte * height * AmplificationTenths)

\* normalizedValue = (db + 100) / 100, sensitivityScale = sensitivity / 100:
\* 1/10000 px
VisualizerBarUnit == 100 * 100

\* BarVisualizer: Math.max(2, normalizedValue * height * sensitivityScale)
VisualizerBarHeight(db, height, sensitivity) ==
  Max(2 * VisualizerBarUnit, BarNormalizedValue(db) * height * sensitivity)

\* one bar of drawBars, from a byte that went through applySensitivity
CanvasBar ==
  /\ \E byte \in Bytes, sensitivity \in Sensitivities, height \in Heights :
       calc' = [NoCalc EXCEPT !.bar =
         [renderer |-> "drawBars", canvasHeight |-> height,
          unit |-> CanvasBarUnit,
          barHeight |-> CanvasBarHeight(ApplySensitivity(byte, sensitivity), height)]]
  /\ UNCHANGED <<audioVars, loopVars, drawVars>>

\* one bar of BarVisualizer
VisualizerBar ==
  /\ \E db \in DbInputs, sensitivity \in Sensitivities, height \in Heights :
       calc' = [NoCalc EXCEPT !.bar =
         [renderer |-> "BarVisualizer", canvasHeight |-> height,
          unit |-> VisualizerBarUnit,
          barHeight |-> VisualizerBarHeight(db, height, sensitivity)]]
  /\ UNCHANGED <<audioVars, loopVars, drawVars>>

\* C19: every bar drawn in bars mode has a height between the minimum
\* height of 2 px and the canvas height, both included.
BarHeightClamped ==
  calc.bar.renderer # "none" =>
    /\ calc.bar.barHeight >= 2 * calc.bar.unit
    /\ calc.bar.barHeight <= calc.bar.canvasHeight * calc.bar.unit

(***************************************************************************)
(* The routines on short buffers.  For each routine the outcome records    *)
(* whether it threw, whether it read an element the buffer does not have,  *)
(* and whether a value it derived is NaN.  The analyser's buffers have     *)
(* 1024 elements; the shorter lengths are the buffers the routines are     *)
(* required to tolerate.                                                   *)
(***************************************************************************)
BufferLengths == {0, 1, 3, 4, 5, 7, 8, 16, 1024}

\* draw3DGeometric: numPoints = 8, sampleRate = floor(length / 8); the loop
\* breaks at the first dataIndex >= length
GeometricPoints(length) ==
  Cardinality({i \in 0..7 : i * (length \div 8) < length})

\* drawAsteroids2D / drawAsteroids3D: band b of 5 covers
\* [floor(length / 5 * b), floor(length / 5 * (b + 1)))
BandStart(length, band) == (length * band) \div 5

\* bandSum / (endIdx - startIdx) / 255 is 0 / 0 for an empty band
EmptyBands(length) ==
  {band \in 0..4 : BandStart(length, band) = BandStart(length, band + 1)}

\* the five meshes of GeometricVisualizer
GeometricMeshes == 5

\* ctx.moveTo(points[0].x, points[0].y) with no point: TypeError
Draw3DGeometricShort ==
  /\ \E length \in BufferLengths :
       calc' = [NoCalc EXCEPT !.short =
         [routine |-> "draw3DGeometric", length |-> length,
          threw |-> (GeometricPoints(length) = 0),
          missing |-> (GeometricPoints(length) = 0),
          nan |-> FALSE]]
  /\ UNCHANGED <<audioVars, loopVars, drawVars>>

DrawAsteroidsShort ==
  /\ \E length \in BufferLengths :
       calc' = [NoCalc EXCEPT !.short =
         [routine |-> "drawAsteroids2D", length |-> length,
          threw |-> FALSE, missing |-> FALSE,
          nan |-> (EmptyBands(length) # {})]]
  /\ UNCHANGED <<audioVars, loopVars, drawVars>>

\* BarVisualizer: frequencyData[Math.min(binIndex, fftSize - 1)], and
\* (undefined + 100) / 100 is NaN
BarVisualizerShort ==
  /\ \E length \in BufferLengths, setting \in BandSettings :
       calc' = [NoCalc EXCEPT !.short =
         [routine |-> "BarVisualizer", length |-> length,
          threw |-> FALSE,
          missing |-> (\E b \in 1..NumBands(setting) :
                         FreqBins(NumBands(setting), length)[b].binIndex
                           \notin 0..(length - 1)),
          nan |-> (\E b \in 1..NumBands(setting) :
                     FreqBins(NumBands(setting), length)[b].binIndex
                       \notin 0..(length - 1))]]
  /\ UNCHANGED <<audioVars, loopVars, drawVars>>

\* GeometricVisualizer: bandSize = floor(length / meshes), average =
\* sum / bandSize is 0 / 0 when bandSize is 0
GeometricVisualizerShort ==
  /\ \E length \in BufferLengths :
       calc' = [NoCalc EXCEPT !.short =
         [routine |-> "GeometricVisualizer", length |-> length,
          threw |-> FALSE, missing |-> FALSE,
          nan |-> (length \div GeometricMeshes = 0)]]
  /\ UNCHANGED <<audioVars, loopVars, drawVars>>

\* detectBeat: slice(0, 10) of a short frame is the whole frame; the
\* average of no values is NaN and `NaN > threshold` is false, so the
\* value returned is false
DetectBeatShort ==
  /\ \E length \in BufferLengths, level \in Levels :
       calc' = [NoCalc EXCEPT !.short =
         [routine |-> "detectBeat", length |-> length,
          threw |-> FALSE, missing |-> FALSE,
          nan |-> (DetectBeatResult(TRUE, Frame(length, 0, level, level),
                                    DefaultBeatThreshold) \notin BOOLEAN)]]
  /\ UNCHANGED <<audioVars, loopVars, drawVars>>

\* C20: on a buffer of length 0, or shorter than the number of bands or
\* points a routine samples, no routine throws, reads a missing element or
\* derives a NaN value.
ShortBuffersTolerated ==
  calc.short.routine # "none" =>
    /\ ~calc.short.threw
    /\ ~calc.short.missing
    /\ ~calc.short.nan

(***************************************************************************)
(* Asteroid particles (VisualizationCanvas.tsx:594-676, 740-838).  The     *)
(* arrays live on `window`; of each array the length and one particle are  *)
(* followed.  Coordinates are whole numbers on a small canvas; the         *)
(* displacement of a frame (speed * audio factor + jitter) is any of       *)
(* Displacements, speeds being unbounded under repeated beat impulses.     *)
(***************************************************************************)
NumParticles2D == 30
NumParticles3D == 50

CanvasSizes == {[width |-> 6, height |-> 4], [width |-> 3, height |-> 2]}

\* size = 2 + Math.random() * 8
ParticleSizes == {2}

Displacements == {-9, 2}

\* a particle left to move on past the edge
NoWrap(v, size, extent) == v

\* if (p.x < -p.size) p.x = width + p.size;
\* if (p.x > width + p.size) p.x = -p.size;
Wrap(v, size, extent) ==
  IF v < 0 - size THEN extent + size
  ELSE IF v > extent + size THEN 0 - size
  ELSE v

\* the array after `if (!arr || arr.length === 0) { ...push numParticles }`
Initialized(length, numParticles) == IF length = 0 THEN numParticles ELSE length

\* one frame of drawAsteroids2D: create the particles if there are none
\* (x in [0, width], y in [0, height]), then move and wrap each
DrawAsteroids2D ==
  /\ \E dx, dy \in Displacements, size \in ParticleSizes,
        x0 \in {0, calc.asteroids.width}, y0 \in {0, calc.asteroids.height} :
       LET a == calc.asteroids
           p == IF a.length2D = 0 THEN [x |-> x0, y |-> y0, size |-> size]
                ELSE a.p2D
       IN calc' = [calc EXCEPT !.asteroids =
            [a EXCEPT !.op = "drawAsteroids2D",
                      !.length2D = Initialized(a.length2D, NumParticles2D),
                      !.p2D = [p EXCEPT !.x = Wrap(p.x + dx, p.size, a.width),
                                        !.y = Wrap(p.y + dy, p.size, a.height)]]]
  /\ UNCHANGED <<audioVars, loopVars, drawVars>>

\* depths followed and the z-displacements of a frame (speedZ > 0)
ParticleDepths == {-500, 0}

DepthSteps == {500, 600}

\* one frame of drawAsteroids3D: as in 2D, and a particle whose z has
\* passed 500 restarts at z = -500 with x in [0, width], y in [0, height]
DrawAsteroids3D ==
  /\ \E dx, dy \in Displacements, dz \in DepthSteps, size \in ParticleSizes,
        x0 \in {0, calc.asteroids.width}, y0 \in {0, calc.asteroids.height},
        z0 \in ParticleDepths :
       LET a == calc.asteroids
           p == IF a.length3D = 0
                THEN [x |-> x0, y |-> y0, z |-> z0, size |-> size]
                ELSE a.p3D
           reset == p.z + dz > 500
           x == IF reset THEN x0 ELSE p.x + dx
           y == IF reset THEN y0 ELSE p.y + dy
       IN calc' = [calc EXCEPT !.asteroids =
            [a EXCEPT !.op = "drawAsteroids3D",
                      !.length3D = Initialized(a.length3D, NumParticles3D),
                      !.p3D = [p EXCEPT !.x = Wrap(x, p.size, a.width),
                                        !.y = Wrap(y, p.size, a.height),
                                        !.z = IF reset THEN -500 ELSE p.z + dz]]]
  /\ UNCHANGED <<audioVars, loopVars, drawVars>>

\* the canvas gets another size; a switch of mode changes which of the two
\* routines the frames call.  Neither touches the arrays.
AsteroidsResize ==
  /\ \E size \in CanvasSizes :
       /\ size # [width |-> calc.asteroids.width, height |-> calc.asteroids.height]
       /\ calc' = [calc EXCEPT !.asteroids =
            [@ EXCEPT !.width = size.width, !.height = size.height,
                      !.op = "resize"]]
  /\ UNCHANGED <<audioVars, loopVars, drawVars>>

InitAsteroids == AudioConstructed /\ ViewUnmounted("canvas")

NextAsteroids ==
  \/ DrawAsteroids2D
  \/ DrawAsteroids3D
  \/ AsteroidsResize

SpecAsteroids == InitAsteroids /\ [][NextAsteroids]_vars

\* a particle is within the canvas extended by its size
WithinWrap(p, width, height) ==
  /\ 0 - p.size <= p.x /\ p.x <= width + p.size
  /\ 0 - p.size <= p.y /\ p.y <= height + p.size

\* C21: once created, the 2D array keeps its 30 and the 3D array its 50
\* particles across frames, mode switches and resizes, and after every
\* frame each particle of the mode drawn satisfies
\* -size <= x <= width + size and -size <= y <= height + size.
AsteroidsPersistAndWrap ==
  [][ /\ calc.asteroids.length2D # 0 =>
           calc'.asteroids.length2D = calc.asteroids.length2D
      /\ calc.asteroids.length3D # 0 =>
           calc'.asteroids.length3D = calc.asteroids.length3D
      /\ calc'.asteroids.op = "drawAsteroids2D" =>
           /\ calc'.asteroids.length2D = 30
           /\ WithinWrap(calc'.asteroids.p2D, calc'.asteroids.width,
                         calc'.asteroids.height)
      /\ calc'.asteroids.op = "drawAsteroids3D" =>
           /\ calc'.asteroids.length3D = 50
           /\ WithinWrap(calc'.asteroids.p3D, calc'.asteroids.width,
                         calc'.asteroids.height)
    ]_vars

\* a 2D particle that was beyond the right edge of a canvas made smaller
\* has been wrapped to the left edge by the next frame
WrappedAfterResize ==
  /\ calc.asteroids.op = "drawAsteroids2D"
  /\ calc.asteroids.width = 3
  /\ calc.asteroids.p2D.x = 0 - calc.asteroids.p2D.size
  /\ calc.asteroids.length3D = 50

(***************************************************************************)
(* The beat pulse of the 3D renderers over a sequence of frames            *)
(* (unnamed/part_000:127-154, GeometricVisualizer.tsx:106-131).  One       *)
(* particle's distance from the centre and one mesh's scale (in percent)   *)
(* are followed while the audio plays and the reads succeed.               *)
(***************************************************************************)
\* scale = 1 + average * sensitivity * (isBeat ? 1.3 : 1.0), in percent
MeshScalePct(db, isBeat) ==
  100 + (AudioValuePct(db) * DefaultSensitivityPct
           * (IF isBeat THEN 13 ELSE 10)) \div 1000

\* both components mount: a particle at `radius` from the centre, meshes
\* at scale 1
PulseMount ==
  /\ ~calc.pulse.mounted
  /\ \E radius \in InitRadii :
       calc' = [calc EXCEPT !.pulse =
         [@ EXCEPT !.mounted = TRUE, !.initial = radius, !.radius = radius]]
  /\ UNCHANGED <<audioVars, loopVars, drawVars>>

\* one frame of ParticleVisualizer's animate: the position read from the
\* buffer is multiplied by scale and written back
ParticlePulseFrame ==
  /\ calc.pulse.mounted
  /\ calc.pulse.frames < MaxFrames
  /\ \E db \in FrameLevels :
       LET isBeat == DetectBeat(db, TRUE)
           scaled == ScalePositions(<<calc.pulse.radius>>, db, isBeat)
       IN calc' = [calc EXCEPT !.pulse =
            [@ EXCEPT !.radius = scaled[1],
                      !.frames = @ + 1,
                      !.frame = [renderer |-> "ParticleVisualizer",
                                 db |-> db, isBeat |-> isBeat]]]
  /\ UNCHANGED <<audioVars, loopVars, drawVars>>

\* one frame of GeometricVisualizer's animate: mesh.scale.set(scale, ...)
GeometricPulseFrame ==
  /\ calc.pulse.mounted
  /\ calc.pulse.frames < MaxFrames
  /\ \E db \in FrameLevels :
       LET isBeat == DetectBeat(db, TRUE)
       IN calc' = [calc EXCEPT !.pulse =
            [@ EXCEPT !.meshScale = MeshScalePct(db, isBeat),
                      !.frames = @ + 1,
                      !.frame = [renderer |-> "GeometricVisualizer",
                                 db |-> db, isBeat |-> isBeat]]]
  /\ UNCHANGED <<audioVars, loopVars, drawVars>>

InitPulse == AudioConstructed /\ ViewUnmounted("canvas")

NextPulse ==
  \/ PulseMount
  \/ ParticlePulseFrame
  \/ GeometricPulseFrame

SpecPulse == InitPulse /\ [][NextPulse]_vars

\* C22: the beat pulse is not carried over from frame to frame: whatever
\* frames came before, a frame without a beat leaves the particle at its
\* initial radius displaced by that frame's level only and the mesh at that
\* frame's unboosted scale, and a frame of zero magnitude leaves them at
\* the initial radius and at scale 1.
PulseNotCarriedOver ==
  /\ calc.pulse.frame.renderer = "ParticleVisualizer" /\ ~calc.pulse.frame.isBeat =>
       calc.pulse.radius =
         (calc.pulse.initial * (100 + AudioValuePct(calc.pulse.frame.db))) \div 100
  /\ calc.pulse.frame.renderer = "ParticleVisualizer" /\ calc.pulse.frame.db = -100 =>
       calc.pulse.radius = calc.pulse.initial
  /\ calc.pulse.frame.renderer = "GeometricVisualizer" /\ ~calc.pulse.frame.isBeat =>
       calc.pulse.meshScale = 100 + AudioValuePct(calc.pulse.frame.db)
  /\ calc.pulse.frame.renderer = "GeometricVisualizer" /\ calc.pulse.frame.db = -100 =>
       calc.pulse.meshScale = 100

(***************************************************************************)
(* The sensitivity slider (VisualizationSettings.tsx:132-156).  Decibels   *)
(* are in tenths.                                                          *)
(***************************************************************************)
\* <input type="range" min="0" max="100">, parseInt of its value
SliderValues == 0..100

\* the mapping with the two spans exchanged
SliderMinDbSwapped(sensitivity) == -1000 + (300 * sensitivity) \div 100

\* minDb = -100 + (70 * sensitivity / 100)
SliderMinDb(sensitivity) == -1000 + (700 * sensitivity) \div 100

\* maxDb = -30 + (30 * sensitivity / 100)
SliderMaxDb(sensitivity) == -300 + (300 * sensitivity) \div 100

\* onChange / onInput up to the call of setAnalyzerSensitivity
SensitivitySlider ==
  /\ \E sensitivity \in SliderValues :
       calc' = [calc EXCEPT !.slider =
         [made |-> TRUE, sensitivity |-> sensitivity,
          minDb |-> SliderMinDb(sensitivity),
          maxDb |-> SliderMaxDb(sensitivity)]]
  /\ UNCHANGED <<audioVars, loopVars, drawVars>>

InitSlider == AudioConstructed /\ ViewUnmounted("canvas")

NextSlider == SensitivitySlider

SpecSlider == InitSlider /\ [][NextSlider]_vars

\* C23: for every integer sensitivity s in [0, 100] the slider passes
\* minDb = -100 + 0.7 s and maxDb = -30 + 0.3 s to setAnalyzerSensitivity,
\* with minDb in [-100, -30], maxDb in [-30, 0] and minDb < maxDb.
SliderWindowWellFormed ==
  calc.slider.made =>
    /\ calc.slider.minDb = -1000 + 7 * calc.slider.sensitivity
    /\ calc.slider.maxDb = -300 + 3 * calc.slider.sensitivity
    /\ -1000 <= calc.slider.minDb /\ calc.slider.minDb <= -300
    /\ -300 <= calc.slider.maxDb /\ calc.slider.maxDb <= 0
    /\ calc.slider.minDb < calc.slider.maxDb

\* the slider at its maximum: the window is [-30 dB, 0 dB]
SliderAtMaximum ==
  /\ calc.slider.made
  /\ calc.slider.sensitivity = 100
  /\ calc.slider.minDb = -300
  /\ calc.slider.maxDb = 0

(***************************************************************************)
(* The settings a running loop draws with.  A renderer's draw function is  *)
(* a closure made when its effect runs; it holds the settings object of    *)
(* that render.  updateSettings installs a fresh object, every component   *)
(* re-renders, and an effect runs again only when one of its dependencies  *)
(* changed: [isPlaying, audioData, settings.type] for VisualizationCanvas  *)
(* (VisualizationCanvas.tsx:281), [..., isPlaying, settings] for           *)
(* BarVisualizer (unnamed/part_001:91).  Sensitivity is in percent.        *)
(***************************************************************************)
RenderComponents == {"canvas", "BarVisualizer"}

SettingsTypes == {"bars", "waveform"}

SettingsSensitivities == {50, 100, 200}

\* whether a component's loop effect runs again when the settings object
\* `old` is replaced by `new`
EffectDependsOn(renderer, old, new) ==
  IF renderer = "canvas" THEN old.type # new.type ELSE old # new

\* the loop effect run with the settings of the current render: it returns
\* at once while nothing is playing, otherwise its draw closure holds them
RunLoopEffect(r, playing, settings) ==
  [r EXCEPT !.isPlaying = playing, !.settings = settings,
            !.running = playing,
            !.captured = IF playing THEN settings ELSE @]

RenderMount ==
  /\ calc.render.component = "none"
  /\ \E renderer \in RenderComponents, playing \in BOOLEAN :
       calc' = [calc EXCEPT !.render =
         RunLoopEffect([calc.render EXCEPT !.component = renderer],
                       playing, calc.render.settings)]
  /\ UNCHANGED <<audioVars, loopVars, drawVars>>

\* updateSettings({type}) or updateSettings({sensitivity}) from the panel
RenderUpdateSettings ==
  /\ calc.render.component # "none"
  /\ \E type \in SettingsTypes, sensitivity \in SettingsSensitivities :
       LET old == calc.render.settings
           new == [type |-> type, sensitivity |-> sensitivity]
           r   == [calc.render EXCEPT !.settings = new, !.frame.made = FALSE]
       IN /\ new # old
          /\ \/ type = old.type
             \/ sensitivity = old.sensitivity
          /\ calc' = [calc EXCEPT !.render =
               IF EffectDependsOn(calc.render.component, old, new)
               THEN RunLoopEffect(r, r.isPlaying, new)
               ELSE r]
  /\ UNCHANGED <<audioVars, loopVars, drawVars>>

\* play or pause: isPlaying is a dependency of both effects
RenderSetPlaying ==
  /\ calc.render.component # "none"
  /\ calc' = [calc EXCEPT !.render =
       RunLoopEffect(calc.render, ~calc.render.isPlaying,
                     calc.render.settings)]
  /\ UNCHANGED <<audioVars, loopVars, drawVars>>

\* one tick of the running loop: it draws with the settings its closure holds
RenderFrame ==
  /\ calc.render.running
  /\ calc' = [calc EXCEPT !.render.frame =
       [made |-> TRUE, settings |-> calc.render.captured]]
  /\ UNCHANGED <<audioVars, loopVars, drawVars>>

InitRender == AudioConstructed /\ ViewUnmounted("canvas")

NextRender ==
  \/ RenderMount
  \/ RenderUpdateSettings
  \/ RenderSetPlaying
  \/ RenderFrame

SpecRender == InitRender /\ [][NextRender]_vars

\* C24: every renderer reads the settings each frame: a frame drawn after
\* updateSettings changed a mapping parameter uses the new value, without a
\* mode switch or a play/pause toggle in between.
FrameUsesCurrentSettings ==
  calc.render.frame.made =>
    calc.render.frame.settings = calc.render.settings


(***************************************************************************)
(* The playing flag of the provider against the service's.  The provider's *)
(* play/pause/stop await the service method and then set their own flag    *)
(* (AudioContext.tsx:109-122); the Space shortcut toggles the service      *)
(* directly (AudioService.ts:626-635) and tells the provider nothing.      *)
(***************************************************************************)
\* AudioProvider.play up to `await audioService.play()`
ProviderPlay ==
  /\ calc.provider.pending = "none"
  /\ ServicePlay
  /\ calc' = [calc EXCEPT !.provider.pending = "play",
                          !.provider.settled = "none"]
  /\ UNCHANGED <<loopVars, drawVars>>

\* the play() the provider or the shortcut started goes on
PlayContinues == PlayResume

\* AudioProvider.play after the await: setIsPlaying(true)
ProviderPlayResolved ==
  /\ calc.provider.pending = "play"
  /\ calls = EmptyBag
  /\ calc' = [calc EXCEPT !.provider.pending = "none",
                          !.provider.settled = "resolved",
                          !.provider.isPlaying = TRUE]
  /\ UNCHANGED <<audioVars, loopVars, drawVars>>

\* AudioProvider.pause: await audioService.pause(); setIsPlaying(false)
ProviderPause ==
  /\ calc.provider.pending = "none"
  /\ ServicePause
  /\ calc' = [calc EXCEPT !.provider.settled = "resolved",
                          !.provider.isPlaying = FALSE]
  /\ UNCHANGED <<loopVars, drawVars>>

\* AudioProvider.stop: await audioService.stop(); setIsPlaying(false)
ProviderStop ==
  /\ calc.provider.pending = "none"
  /\ ServiceStop
  /\ calc' = [calc EXCEPT !.provider.settled = "resolved",
                          !.provider.isPlaying = FALSE]
  /\ UNCHANGED <<loopVars, drawVars>>

\* the Space key: audioService.pause() while playing, audioService.play()
\* otherwise
SpaceToggle ==
  /\ calc.provider.pending = "none"
  /\ calls = EmptyBag
  /\ IF isPlaying THEN Pause ELSE PlayCall

InitPlaying == AudioConstructed /\ ViewUnmounted("canvas")

NextPlaying ==
  \/ LoadFile
  \/ LoadStream
  \/ ProviderInitMicrophone
  \/ ServiceContinues
  \/ LoadResolved
  \/ InitMicrophoneResolved
  \/ InitMicrophoneRejected
  \/ ProviderPlay
  \/ PlayContinues
  \/ ProviderPlayResolved
  \/ ProviderPause
  \/ ProviderStop
  \/ SpaceToggle

SpecPlaying == InitPlaying /\ [][NextPlaying]_vars

\* C25: after every completed operation (provider play, pause, stop or
\* load, Space toggle, failed or no-op service call) the provider's
\* isPlaying equals the service's isPlaying.
ProviderMirrorsService ==
  calc.provider.pending = "none" /\ calls = EmptyBag =>
    calc.provider.isPlaying = isPlaying


(***************************************************************************)
(* Playing after stop().  stop() disconnects the player, or closes and     *)
(* disconnects the microphone, and leaves currentSource in place           *)
(* (AudioService.ts:303-325); play() starts the player and sets isPlaying  *)
(* (AudioService.ts:265-283) and connects nothing.                         *)
(***************************************************************************)
\* the current source's node is open: a microphone's MediaStream is open,
\* a player exists
SourceOpen ==
  /\ currentSource.type # "none"
  /\ currentSource.source # 0
  /\ currentSource.type = "microphone" => nodes[currentSource.source].active

\* C26: whenever the service's isPlaying is true the current source is
\* open and connected to the analyser, in particular after stop() followed
\* by play() on the same source.
PlayingSourceConnected ==
  isPlaying => SourceOpen /\ SourceActive


(***************************************************************************)
(* Starts of the player.  play() checks isPlaying before `await            *)
(* Tone.start()` and sets it after `await this.player.start()`             *)
(* (AudioService.ts:265-283); calc.starts counts the player.start() calls  *)
(* made since the player was created or last stopped by pause() or stop(). *)
(***************************************************************************)
\* the service has a player to stop or start
HasPlayer == currentSource.type \in {"file", "stream"} /\ player # 0

\* loadAudioFile / loadStreamUrl called: stop() first, the player is new
StartsLoad ==
  /\ \E op \in {"loadAudioFile", "loadStreamUrl"} : StartCall(op)
  /\ calc' = [calc EXCEPT !.starts = 0]
  /\ UNCHANGED <<loopVars, drawVars>>

StartsLoaded ==
  \/ LoadAudioFileResume
  \/ LoadStreamUrlResume

StartsPlay == PlayCall

\* the continuation of one play(): this.player.start()
StartsPlayResume ==
  /\ ServicePlayResume
  /\ calc' = [calc EXCEPT !.starts = IF HasPlayer THEN @ + 1 ELSE @]
  /\ UNCHANGED <<loopVars, drawVars>>

\* pause(): this.player.stop() when playing
StartsPause ==
  /\ ServicePause
  /\ calc' = [calc EXCEPT !.starts = IF isPlaying /\ HasPlayer THEN 0 ELSE @]
  /\ UNCHANGED <<loopVars, drawVars>>

\* stop(): this.player.stop()
StartsStop ==
  /\ ServiceStop
  /\ calc' = [calc EXCEPT !.starts = IF HasPlayer THEN 0 ELSE @]
  /\ UNCHANGED <<loopVars, drawVars>>

InitStarts == AudioConstructed /\ ViewUnmounted("canvas")

NextStarts ==
  \/ StartsLoad
  \/ StartsLoaded
  \/ StartsPlay
  \/ StartsPlayResume
  \/ StartsPause
  \/ StartsStop

SpecStarts == InitStarts /\ [][NextStarts]_vars

\* C27: play() starts the player at most once per pause/stop, also when it
\* is invoked a second time before the first invocation's awaits have
\* resolved.
PlayerStartedOnce == calc.starts <= 1


(***************************************************************************)
(* The analyser's mode between reads.  getWaveformData sets 'waveform',    *)
(* reads, and sets 'fft' inside one try block (AudioService.ts:552-585);   *)
(* the canvas tick does the same (VisualizationCanvas.tsx:146-165).  A     *)
(* throw from getValue() goes to the catch block, past the switch back.    *)
(***************************************************************************)
\* C28: between ticks the shared analyser is always in FFT mode: every
\* path through getWaveformData that switches it to 'waveform' switches it
\* back to 'fft' before returning, the path on which the read throws
\* included.
AnalyserInFftBetweenTicks ==
  analyser = "ready" => analyserType = "fft"


(***************************************************************************)
(* The microphone error in AudioControls.  The component shows the         *)
(* provider's error on the microphone tab with a retry button              *)
(* (AudioControls.tsx:115-139) and has an effect with dependencies         *)
(* [activeTab, error, clearError] that calls clearError() whenever error   *)
(* is set (AudioControls.tsx:29-33).  React runs the effect after a render *)
(* in which a dependency differs from the last run, before the next user   *)
(* event is handled.                                                       *)
(***************************************************************************)
SourceTabs == {"file", "microphone", "stream"}

\* a dependency of the effect differs from its last run
EffectDue ==
  \/ calc.controls.activeTab # calc.controls.seenTab
  \/ calc.provider.error # calc.controls.seenError

\* the user selects another source tab: setActiveTab(tab)
SwitchTab ==
  /\ ~EffectDue
  /\ \E tab \in SourceTabs :
       /\ tab # calc.controls.activeTab
       /\ calc' = [calc EXCEPT !.controls.activeTab = tab]
  /\ UNCHANGED <<audioVars, loopVars, drawVars>>

\* "Start Microphone", or "Retry Microphone Access": clearError();
\* initMicrophone()
ClickMicrophone ==
  /\ ~EffectDue
  /\ calc.controls.activeTab = "microphone"
  /\ ProviderInitMicrophone

\* handleFileChange: loadFile(files[0])
ChooseFile ==
  /\ ~EffectDue
  /\ calc.controls.activeTab = "file"
  /\ LoadFile

\* handleStreamSubmit: loadStream(streamUrl)
SubmitStream ==
  /\ ~EffectDue
  /\ calc.controls.activeTab = "stream"
  /\ LoadStream

\* the effect of AudioControls.tsx:29-33 runs: if (error) clearError()
ClearErrorEffect ==
  /\ EffectDue
  /\ calc' = [calc EXCEPT !.controls.seenTab = calc.controls.activeTab,
                          !.controls.seenError = calc.provider.error,
                          !.provider.error = "null"]
  /\ UNCHANGED <<audioVars, loopVars, drawVars>>

InitControls == AudioConstructed /\ ViewUnmounted("canvas")

NextControls ==
  \/ ChooseFile
  \/ SubmitStream
  \/ ClickMicrophone
  \/ ServiceContinues
  \/ LoadResolved
  \/ InitMicrophoneResolved
  \/ InitMicrophoneRejected
  \/ SwitchTab
  \/ ClearErrorEffect

SpecControls == InitControls /\ [][NextControls]_vars

\* C29: a microphone error set by a failed initMicrophone stays visible
\* until the user retries or switches the source tab: the provider's error
\* goes from a message to null only in a step that starts initMicrophone
\* again or that follows a change of tab.
ErrorStaysUntilUserActs ==
  [][(calc.provider.error # "null" /\ calc'.provider.error = "null") =>
       \/ calc'.provider.pending = "initMicrophone"
       \/ calc.controls.activeTab # calc.controls.seenTab]_vars


(***************************************************************************)
(* The analyser's decibel window against settings.sensitivity.  The        *)
(* constructor builds the analyser with createAnalyzer(-100, -30)          *)
(* (AudioService.ts:35) while defaultSettings.sensitivity is 1.0           *)
(* (AudioContext.tsx:257); only the slider's handlers call                 *)
(* setAnalyzerSensitivity (VisualizationSettings.tsx:137-156), loadPreset  *)
(* replaces the settings only (AudioContext.tsx:318-323).                  *)
(***************************************************************************)
WindowSensitivities == {0, 1, 50, 100}

\* the window of a Web Audio AnalyserNode nobody has written to
NodeDefaultMinDb == -1000

NodeDefaultMaxDb == -300

\* setAnalyzerSensitivity(minDb, maxDb): the native node is found and
\* written, or the analyser is rebuilt by createAnalyzer(minDb, maxDb),
\* which writes to the new native node if it finds it
AnalyzerWindowAfter(minDb, maxDb, success, found) ==
  IF success \/ found THEN [minDb |-> minDb, maxDb |-> maxDb]
  ELSE [minDb |-> NodeDefaultMinDb, maxDb |-> NodeDefaultMaxDb]

\* the slider moves: updateSettings({sensitivity}); setAnalyzerSensitivity
WindowSlider ==
  /\ \E sensitivity \in WindowSensitivities, success \in BOOLEAN, found \in BOOLEAN :
       LET w == AnalyzerWindowAfter(SliderMinDb(sensitivity),
                                    SliderMaxDb(sensitivity), success, found)
       IN calc' = [calc EXCEPT !.window.sensitivity = sensitivity,
                               !.window.minDb = w.minDb,
                               !.window.maxDb = w.maxDb]
  /\ UNCHANGED <<audioVars, loopVars, drawVars>>

\* savePreset(name): a copy of the current settings is kept
WindowSavePreset ==
  /\ calc' = [calc EXCEPT !.window.presets = @ \cup {calc.window.sensitivity}]
  /\ UNCHANGED <<audioVars, loopVars, drawVars>>

\* loadPreset(id): setSettings(preset.settings)
WindowLoadPreset ==
  /\ \E sensitivity \in calc.window.presets :
       calc' = [calc EXCEPT !.window.sensitivity = sensitivity]
  /\ UNCHANGED <<audioVars, loopVars, drawVars>>

InitWindow == AudioConstructed /\ ViewUnmounted("canvas")

NextWindow ==
  \/ WindowSlider
  \/ WindowSavePreset
  \/ WindowLoadPreset

SpecWindow == InitWindow /\ [][NextWindow]_vars

\* C30: the analyser's decibel window always corresponds to the current
\* settings.sensitivity s, minDb = -100 + 0.7 s and maxDb = -30 + 0.3 s,
\* initially and after any slider changes, loadPreset calls and rebuilds.
WindowMatchesSensitivity ==
  /\ calc.window.minDb = -1000 + 7 * calc.window.sensitivity
  /\ calc.window.maxDb = -300 + 3 * calc.window.sensitivity

(***************************************************************************)
(* The mapping routines of the renderers as one specification: each step   *)
(* is one routine applied to one input, and calc holds the outcome of the  *)
(* last routine applied.                                                   *)
(***************************************************************************)
InitMapping == AudioConstructed /\ ViewUnmounted("canvas")

NextMapping ==
  \/ BarNormalize
  \/ ParticleNormalize
  \/ GeometricNormalize
  \/ ParticleColor
  \/ GeometricColor
  \/ AsteroidColor
  \/ CanvasBar
  \/ VisualizerBar
  \/ Draw3DGeometricShort
  \/ DrawAsteroidsShort
  \/ BarVisualizerShort
  \/ GeometricVisualizerShort
  \/ DetectBeatShort

SpecMapping == InitMapping /\ [][NextMapping]_vars

=============================================================================
